---- MODULE Spec2Model ----
(***************************************************************************)
(* Model of the devtrace stack logger (skulidropek/gotrace):               *)
(*   - EnhancedLogger.filterFrames       (src/stack_logger.go 467-547)     *)
(*   - TraceContext Enter/Leave/Stack    (src/stack_logger.go 1329-1376)   *)
(*   - the process-wide fallback context (src/stack_logger.go 1266-1437)   *)
(*   - the global configuration          (src/gotrace/devtrace.go 81-89)   *)
(* Strings are sequences of one-character strings, so that                 *)
(* strings.Contains is a real substring test.  A *Frame is a pointer       *)
(* (a positive integer) into a heap of Frame records; 0 is nil.            *)
(***************************************************************************)
EXTENDS Integers, Sequences, FiniteSets, TLC

VARIABLES
    \* ---- EnhancedLogger.filterFrames ----
    fpc,          \* "collect" while getStackFrames gathers, "done" after filterFrames
    options,      \* el.options of the logger filterFrames is called on
    heap,         \* Frame records by pointer
    frames,       \* the []*Frame handed to filterFrames
    selfFiltered, \* local `filtered` after the self-filter loop   (line 483)
    appFrames,    \* local `appFrames`                             (line 493)
    mixed,        \* local `filtered` after the app-specific block (line 524)
    display       \* the returned slice                            (line 546)

VARIABLES
    \* ---- one TraceContext driven by a single thread ----
    arrays,       \* backing arrays of the live slices, by array id
    tcFrames,     \* tc.Frames: slice header [arr, len, cap]
    tcDepth,      \* tc.Depth
    stamped,      \* frames whose EndTime/Duration Leave has set
    leaveRet,     \* what the last Leave returned (0 is nil)
    snap,         \* the slice the last Stack() returned to its caller
    entered,      \* the frames entered and not yet left, in entry order
    expectRet     \* the frame the last Leave had to return (0 on empty)

VARIABLES
    \* ---- the process-wide fallback context and the global configuration ----
    globalContext, \* the package variable: "nil" or "set"
    gInst,         \* the TraceContext globalContext points to: [Frames, Depth]
    globalMutex,   \* sync.RWMutex: [writer (0 = none), readers]
    Config,        \* Config.Enabled
    gpc,           \* position of each goroutine inside its current call
    gop,           \* the call each goroutine is in
    gtc,           \* the *TraceContext the call resolved: "none", "global", "temp"
    acc,           \* the memory access each goroutine has in progress
    gseen,         \* the value an access in progress read when it began
    gret,          \* what each goroutine's last call returned
    gcalls,        \* calls each goroutine has made
    instances,     \* TraceContext instances handed out so far (counted up to 2)
    liveEntered    \* frames a completed call entered and no completed call left

VARIABLES
    \* ---- the signature cache (getSignatureForLocation) ----
    signatureCache,   \* map[string]*fileSignature, by file path
    signatureCacheMu, \* sync.RWMutex: [writer (0 = none), readers]
    fsys,             \* what os.ReadFile finds under each path right now
    look,             \* each goroutine's lookup in progress, with its locals
    sigHist           \* history: parses per file, whether lookups overlapped

filterVars == <<fpc, options, heap, frames, selfFiltered, appFrames, mixed, display>>

ctxVars == <<arrays, tcFrames, tcDepth, stamped, leaveRet, snap, entered, expectRet>>

globalVars == <<globalContext, gInst, globalMutex, Config, gpc, gop, gtc, acc,
                gseen, gret, gcalls, instances, liveEntered>>

VARIABLES
    \* ---- one signature resolution on a parsed file ----
    resolver          \* [pc, decls, line, name, ret]

VARIABLES
    \* ---- normalizeFrameArgs on one frame ----
    norm              \* [pc, Args (frame.Args), params, orig, once]

VARIABLES
    \* ---- concurrent LogWithStack calls on one TraceContext ----
    shared,           \* the context's frames: [stack, Signature, Args by frame]
    logr              \* each logging goroutine: [pc, todo, acc, seen, val]

VARIABLES
    \* ---- one goroutine running traced calls that log ----
    el,               \* the EnhancedLogger: [options]
    tctx,             \* the explicit TraceContext: the Frame objects of Frames
    acts,             \* the traced calls under way, outermost first
    backend,          \* the calls the logging backend received from the last LogWithStack
    tlog,             \* what the last LogWithStack call did
    outcome,          \* how the last finished traced call ended
    escaped           \* a panic reached the code that started the chain

VARIABLES
    mix,              \* one run of the preferApp mixing loop of filterFrames
    wiring,           \* the logging backends and the standard logger's output
    instr             \* one source file under the instrumenter

sigVars == <<signatureCache, signatureCacheMu, fsys, look, sigHist>>

memoVars == <<shared, logr>>

traceVars == <<el, tctx, acts, backend, tlog, outcome, escaped>>

moreVars == <<mix, wiring, instr>>

extVars == <<sigVars, resolver, norm, memoVars, traceVars, moreVars>>

\* what the steps of one part of the program leave alone
sigOthers == <<filterVars, ctxVars, globalVars, resolver, norm, memoVars, traceVars, moreVars>>
resOthers == <<filterVars, ctxVars, globalVars, sigVars, norm, memoVars, traceVars, moreVars>>
normOthers == <<filterVars, ctxVars, globalVars, sigVars, resolver, memoVars, traceVars, moreVars>>
traceOthers == <<filterVars, ctxVars, resolver, norm, memoVars, moreVars>>
memoOthers == <<filterVars, ctxVars, globalVars, sigVars, resolver, norm, traceVars, moreVars>>

vars == <<filterVars, ctxVars, globalVars, extVars>>

----------------------------------------------------------------------------
(* Bounds *)
MaxFrames == 6      \* longest input stack
MaxSelf   == 1      \* most devtrace/runtime frames in one input stack
MaxLimit  == 6      \* largest configured Limit
MaxDepth  == 3      \* deepest nesting on the single TraceContext
MaxMixLen == 3      \* longest frame list stepped through the mixing loop
MaxPtr    == 2      \* most distinct *Frame values in such a list
MaxLogCalls == 3    \* log calls the program makes on the wired loggers
MaxFuncs  == 2      \* function declarations in an instrumented file
MaxRuns   == 2      \* runs of the instrumenter over one file
NumGoroutines == 2  \* goroutines using the process-wide state
MaxCalls  == 2      \* calls each goroutine makes
MaxLookups == 2     \* signature lookups each goroutine makes
MaxDecls  == 2      \* function declarations in a parsed file
MaxLine   == 3      \* last line of a parsed file
MaxParams == 2      \* parameters of a resolved function
MaxNest   == 2      \* deepest chain of nested traced calls

----------------------------------------------------------------------------
(* strings *)

\* strings.Contains(s, substr)
Contains(s, substr) ==
    \/ Len(substr) = 0
    \/ \E i \in 1..(Len(s) - Len(substr) + 1) :
           /\ s[i] = substr[1]
           /\ SubSeq(s, i, i + Len(substr) - 1) = substr

S_devtraceDot == <<"d","e","v","t","r","a","c","e",".">>
S_devtrace    == <<"d","e","v","t","r","a","c","e">>
S_runtimeDot  == <<"r","u","n","t","i","m","e",".">>

\* The kinds of frame an input stack is drawn from: application code,
\* library code, and the three shapes the self-filter recognises.
AppFrame      == [Function |-> <<"m",".","f">>,
                  File     |-> <<"/","a","p","p","/","m">>]
LibFrame      == [Function |-> <<"l",".","P">>,
                  File     |-> <<"/","l","i","b","/","p">>]
DevFuncFrame  == [Function |-> S_devtraceDot \o <<"E">>,
                  File     |-> <<"/","a","p","p","/","t">>]
DevFileFrame  == [Function |-> <<"m",".","g">>,
                  File     |-> <<"/","a","p","p","/">> \o S_devtrace \o <<"/","c">>]
RuntimeFrame  == [Function |-> S_runtimeDot \o <<"m","a","i","n">>,
                  File     |-> <<"/","l","i","b","/","r">>]

SelfKinds  == {DevFuncFrame, DevFileFrame, RuntimeFrame}
FrameKinds == {AppFrame, LibFrame} \cup SelfKinds

\* The AppPattern the logger is configured with.
AppPatternValue == <<"/","a","p","p","/">>

Limits == 0..MaxLimit

OptionSet == [Limit : Limits, OnlyApp : BOOLEAN, PreferApp : BOOLEAN,
              Ascending : BOOLEAN, AppPattern : {AppPatternValue}]

\* The fields of DefaultStackLoggerOptions that filterFrames reads
DefaultStackLoggerOptions ==
    [Limit |-> 5, OnlyApp |-> FALSE, PreferApp |-> TRUE, Ascending |-> TRUE,
     AppPattern |-> <<"/">>]

----------------------------------------------------------------------------
(* EnhancedLogger.filterFrames *)

\* IsSelfFrame without the test for runtime-internal frames
IsSelfFrame_NoRuntime(h, p) ==
    \/ Contains(h[p].Function, S_devtraceDot)
    \/ Contains(h[p].File, S_devtrace)

\* lines 476-478: the frame names the library's own internals or the runtime
IsSelfFrame(h, p) ==
    \/ Contains(h[p].Function, S_devtraceDot)
    \/ Contains(h[p].File, S_devtrace)
    \/ Contains(h[p].Function, S_runtimeDot)

\* lines 472-483
RECURSIVE SelfFilter(_, _)
SelfFilter(h, fs) ==
    IF fs = <<>> THEN <<>>
    ELSE IF IsSelfFrame(h, Head(fs)) THEN SelfFilter(h, Tail(fs))
         ELSE <<Head(fs)>> \o SelfFilter(h, Tail(fs))

\* line 490 / 507
IsAppFrame(h, p, opts) == Contains(h[p].File, opts.AppPattern)

\* the application frames gathered by prepending instead of appending
RECURSIVE CollectAppFrames_Prepend(_, _, _)
CollectAppFrames_Prepend(h, fs, opts) ==
    IF fs = <<>> THEN <<>>
    ELSE IF IsAppFrame(h, Head(fs), opts)
         THEN CollectAppFrames_Prepend(h, Tail(fs), opts) \o <<Head(fs)>>
         ELSE CollectAppFrames_Prepend(h, Tail(fs), opts)

\* lines 487-493
RECURSIVE CollectAppFrames(_, _, _)
CollectAppFrames(h, fs, opts) ==
    IF fs = <<>> THEN <<>>
    ELSE IF IsAppFrame(h, Head(fs), opts)
         THEN <<Head(fs)>> \o CollectAppFrames(h, Tail(fs), opts)
         ELSE CollectAppFrames(h, Tail(fs), opts)

\* lines 513-519: the inner "skip frames we already added" loop; indices are
\* the code's 0-based indices, the result is the new otherIndex
RECURSIVE SkipAdded(_, _, _, _)
SkipAdded(filtered, apps, appIndex, otherIndex) ==
    IF otherIndex < Len(filtered) /\ appIndex > 0
    THEN IF filtered[otherIndex + 1] = apps[appIndex]
         THEN otherIndex + 1
         ELSE SkipAdded(filtered, apps, appIndex, otherIndex + 1)
    ELSE otherIndex

\* lines 502-520: the mixing loop
RECURSIVE MixLoop(_, _, _, _, _, _, _)
MixLoop(h, filtered, apps, opts, result, appIndex, otherIndex) ==
    IF ~(Len(result) < opts.Limit
         /\ (appIndex < Len(apps) \/ otherIndex < Len(filtered)))
    THEN result
    ELSE LET s == IF appIndex < Len(apps)
                  THEN [r |-> Append(result, apps[appIndex + 1]),
                        a |-> appIndex + 1, o |-> otherIndex]
                  ELSE IF otherIndex < Len(filtered)
                          /\ ~IsAppFrame(h, filtered[otherIndex + 1], opts)
                       THEN [r |-> Append(result, filtered[otherIndex + 1]),
                             a |-> appIndex, o |-> otherIndex + 1]
                       ELSE [r |-> result, a |-> appIndex, o |-> otherIndex]
         IN  MixLoop(h, filtered, apps, opts, s.r, s.a,
                     SkipAdded(filtered, apps, s.a, s.o))

\* the app-specific block with OnlyApp taking the application frames even
\* when there are none
ApplyAppFilter_NoFallback(h, filtered, opts) ==
    IF opts.OnlyApp \/ opts.PreferApp
    THEN LET apps == CollectAppFrames(h, filtered, opts)
         IN  IF opts.OnlyApp THEN apps
             ELSE IF Len(apps) > 0 /\ opts.PreferApp
                  THEN MixLoop(h, filtered, apps, opts, <<>>, 0, 0)
                  ELSE filtered
    ELSE filtered

\* lines 486-524: the app-specific block
ApplyAppFilter(h, filtered, opts) ==
    IF opts.OnlyApp \/ opts.PreferApp
    THEN LET apps == CollectAppFrames(h, filtered, opts)
         IN  IF Len(apps) > 0 /\ opts.OnlyApp THEN apps
             ELSE IF Len(apps) > 0 /\ opts.PreferApp
                  THEN MixLoop(h, filtered, apps, opts, <<>>, 0, 0)
                  ELSE filtered
    ELSE filtered

\* the limit without the ceiling of five
ConfiguredLimit_NoCeiling(opts) ==
    IF opts.Limit <= 0 THEN 5 ELSE opts.Limit

\* lines 527-533
ConfiguredLimit(opts) ==
    LET l1 == IF opts.Limit <= 0 THEN 5 ELSE opts.Limit
    IN  IF l1 > 5 THEN 5 ELSE l1

\* lines 535-537
ApplyLimit(filtered, opts) ==
    IF Len(filtered) > ConfiguredLimit(opts)
    THEN SubSeq(filtered, Len(filtered) - ConfiguredLimit(opts) + 1, Len(filtered))
    ELSE filtered

\* the swap loop with j never decremented
RECURSIVE SwapLoop_NoDecrement(_, _, _)
SwapLoop_NoDecrement(s, i, j) ==
    IF i < j
    THEN SwapLoop_NoDecrement([s EXCEPT ![i + 1] = s[j + 1], ![j + 1] = s[i + 1]], i + 1, j)
    ELSE s

\* lines 541-543: the in-place swap loop, 0-based i and j
RECURSIVE SwapLoop(_, _, _)
SwapLoop(s, i, j) ==
    IF i < j
    THEN SwapLoop([s EXCEPT ![i + 1] = s[j + 1], ![j + 1] = s[i + 1]], i + 1, j - 1)
    ELSE s

\* lines 540-544
ApplyOrdering(filtered, opts) ==
    IF ~opts.Ascending THEN SwapLoop(filtered, 0, Len(filtered) - 1) ELSE filtered

\* lines 467-547
filterFrames(h, fs, opts) ==
    IF Len(fs) = 0 THEN fs
    ELSE ApplyOrdering(ApplyLimit(ApplyAppFilter(h, SelfFilter(h, fs), opts), opts), opts)

----------------------------------------------------------------------------
(* The process-wide state at program start *)

Goroutines == 1..NumGoroutines

NoAccess == [res |-> "none", mode |-> "none"]
NoCall   == [name |-> "none", arg |-> 0]
EmptyInst == [Frames |-> <<>>, Depth |-> 0]

\* package initialisation: globalContext is nil, the mutex is free, Config
\* is DefaultConfig (Enabled taken from the environment)
GlobalStart ==
    /\ globalContext = "nil"
    /\ gInst = EmptyInst
    /\ globalMutex = [writer |-> 0, readers |-> {}]
    /\ Config \in BOOLEAN
    /\ gpc = [g \in Goroutines |-> "idle"]
    /\ gop = [g \in Goroutines |-> NoCall]
    /\ gtc = [g \in Goroutines |-> "none"]
    /\ acc = [g \in Goroutines |-> NoAccess]
    /\ gseen = [g \in Goroutines |-> EmptyInst]
    /\ gret = [g \in Goroutines |-> <<>>]
    /\ gcalls = [g \in Goroutines |-> 0]
    /\ instances = 0
    /\ liveEntered = <<>>

\* the process-wide state is not part of the run
GlobalIdle ==
    /\ globalContext = "nil"
    /\ gInst = EmptyInst
    /\ globalMutex = [writer |-> 0, readers |-> {}]
    /\ Config = TRUE
    /\ gpc = [g \in Goroutines |-> "idle"]
    /\ gop = [g \in Goroutines |-> NoCall]
    /\ gtc = [g \in Goroutines |-> "none"]
    /\ acc = [g \in Goroutines |-> NoAccess]
    /\ gseen = [g \in Goroutines |-> EmptyInst]
    /\ gret = [g \in Goroutines |-> <<>>]
    /\ gcalls = [g \in Goroutines |-> 0]
    /\ instances = 0
    /\ liveEntered = <<>>

\* ---- the signature cache at program start ----

\* The goroutines that resolve signatures at the same time.
Lookers == {1, 2}

\* Source files the frames point to: FileA holds Go code, FileB (library
\* code) cannot be read on this machine.
FileA == AppFrame.File
FileB == LibFrame.File
SourceFiles == {FileA, FileB}

\* signatureCache[file] when the map has no such key, and the nil entry
\* parseFileSignatures returns for a file it cannot read or parse
NoEntry  == [ok |-> FALSE, by |-> 0, n |-> 0, data |-> "none"]
NilEntry == [ok |-> TRUE,  by |-> 0, n |-> 0, data |-> "none"]

NoLookup == [pc |-> "idle", file |-> <<>>, line |-> 0, entry |-> NoEntry,
             ok |-> FALSE, ret |-> 0, stored |-> FALSE, calls |-> 0]

\* signatureCache = make(map[string]*fileSignature), the mutex is free
SigStart ==
    /\ signatureCache = [f \in SourceFiles |-> NoEntry]
    /\ signatureCacheMu = [writer |-> 0, readers |-> {}]
    /\ fsys \in [SourceFiles -> {"v1", "v2", "unreadable"}]
    /\ fsys[FileA] = "v1" /\ fsys[FileB] = "unreadable"
    /\ look = [g \in Lookers |-> NoLookup]
    /\ sigHist = [parses |-> [f \in SourceFiles |-> 0], overlap |-> FALSE]

SigIdle == SigStart

\* ---- no signature resolution under way ----
ResIdle == resolver = [pc |-> "idle", decls |-> <<>>, line |-> 0, name |-> <<>>, ret |-> 0]

\* ---- no frame being normalised ----
EmptyMap == [k \in {} |-> 0]

NormIdle == norm = [pc |-> "idle", Args |-> EmptyMap, params |-> <<>>,
                    orig |-> EmptyMap, once |-> EmptyMap]

\* ---- nobody is logging ----
Loggers == {1, 2}

NoFieldAccess == [frame |-> 0, field |-> "none", mode |-> "none"]

IdleLogger == [pc |-> "idle", todo |-> <<>>, acc |-> NoFieldAccess,
               seen |-> <<>>, val |-> <<>>]

MemoIdle ==
    /\ shared = [stack |-> <<>>, Signature |-> <<>>, Args |-> <<>>]
    /\ logr = [g \in Loggers |-> IdleLogger]

\* ---- no traced call under way, nothing logged ----
NoLog == [enabled |-> FALSE, level |-> "", message |-> <<>>, args |-> <<>>,
          parts |-> <<>>, display |-> <<>>, route |-> <<>>, ctxRead |-> FALSE,
          opened |-> {}]

NoOutcome == [fn |-> 0, panicked |-> FALSE, wrapped |-> FALSE, result |-> "none",
              Error |-> "none", left |-> FALSE, raised |-> FALSE,
              returned |-> <<>>, out |-> <<>>]

TraceIdle ==
    /\ el = [options |-> DefaultStackLoggerOptions]
    /\ tctx = <<>>
    /\ acts = <<>>
    /\ backend = <<>>
    /\ tlog = NoLog
    /\ outcome = NoOutcome
    /\ escaped = FALSE

Idle == [pc |-> "idle"]

MoreIdle == mix = Idle /\ wiring = Idle /\ instr = Idle

ExtIdle == SigIdle /\ ResIdle /\ NormIdle /\ MemoIdle /\ TraceIdle /\ MoreIdle

----------------------------------------------------------------------------
(* TraceContext.Enter / Leave / Stack on slices.  A slice is a header      *)
(* [arr, len, cap] over a backing array; arr = 0 is the zero-capacity      *)
(* array of make([]*Frame, 0).  Two headers with the same arr share cells. *)

ArrIds    == 1..3
\* The frames the caller enters.  The context never looks into a frame, so
\* two pointers are enough to tell every position from its neighbours.
FramePtrs == {1, 2}
NoSnap    == [arr |-> 0, len |-> 0 - 1, cap |-> 0]
EmptySlice == [arr |-> 0, len |-> 0, cap |-> 0]

\* the elements a slice header denotes
SliceElems(arrs, sl) ==
    IF sl.len <= 0 THEN <<>> ELSE SubSeq(arrs[sl.arr], 1, sl.len)

LiveArrs(t, sn) == {t.arr, sn.arr} \ {0}

\* What the program can still read of the arrays through the two headers:
\* arrays no header points to are collected, and a cell beyond the length
\* of every header on its array is unreachable (no slice is ever re-extended)
\* and is shown as nil.
Collect(arrs, t, sn) ==
    [a \in ArrIds |->
        IF a \notin LiveArrs(t, sn) THEN <<>>
        ELSE [i \in 1..Len(arrs[a]) |->
                 IF (t.arr = a /\ i <= t.len) \/ (sn.arr = a /\ i <= sn.len)
                 THEN arrs[a][i] ELSE 0]]

\* the lowest array id no header of `live` uses
FreshArr(live) == CHOOSE a \in ArrIds : a \notin live /\ \A b \in ArrIds : b \notin live => a <= b

\* append(sl, f): in place while there is capacity, otherwise into a new
\* array of doubled capacity
AppendSlice(arrs, sl, f, live) ==
    IF sl.len < sl.cap
    THEN [sl   |-> [sl EXCEPT !.len = sl.len + 1],
          arrs |-> [arrs EXCEPT ![sl.arr][sl.len + 1] = f]]
    ELSE LET id     == FreshArr(live)
             newcap == IF sl.cap = 0 THEN 1 ELSE 2 * sl.cap
         IN  [sl   |-> [arr |-> id, len |-> sl.len + 1, cap |-> newcap],
              arrs |-> [arrs EXCEPT ![id] =
                           [i \in 1..newcap |->
                               IF i <= sl.len THEN arrs[sl.arr][i]
                               ELSE IF i = sl.len + 1 THEN f ELSE 0]]]

\* Stack() handing out the context's own slice instead of a copy
StackResult_Alias(arrs, sl, live) == [sl |-> sl, arrs |-> arrs]

\* lines 1365-1367: make([]*Frame, len(tc.Frames)); copy(stack, tc.Frames)
StackResult(arrs, sl, live) ==
    IF sl.len = 0 THEN [sl |-> EmptySlice, arrs |-> arrs]
    ELSE LET id == FreshArr(live)
         IN  [sl   |-> [arr |-> id, len |-> sl.len, cap |-> sl.len],
              arrs |-> [arrs EXCEPT ![id] = SliceElems(arrs, sl)]]

\* Leave's bookkeeping with the Depth decrement forgotten
LeaveDepth_Forgotten(depth) == depth

\* line 1347
LeaveDepth(depth) == depth - 1

\* NewTraceContext()
CtxStart ==
    /\ arrays = [a \in ArrIds |-> <<>>]
    /\ tcFrames = EmptySlice
    /\ tcDepth = 0
    /\ stamped = {}
    /\ leaveRet = 0
    /\ snap = NoSnap
    /\ entered = <<>>
    /\ expectRet = 0

\* the context is not part of the run
CtxIdle == CtxStart

FilterIdle ==
    /\ fpc = "idle"
    /\ options = DefaultStackLoggerOptions
    /\ heap = <<>>
    /\ frames = <<>>
    /\ selfFiltered = <<>>
    /\ appFrames = <<>>
    /\ mixed = <<>>
    /\ display = <<>>

InitCtx == CtxStart /\ FilterIdle /\ GlobalIdle /\ ExtIdle

\* tc.Enter(frame)
Enter(f) ==
    /\ tcFrames.len < MaxDepth
    /\ LET r == AppendSlice(arrays, tcFrames, f, LiveArrs(tcFrames, snap))
       IN  /\ tcFrames' = r.sl
           /\ arrays' = Collect(r.arrs, r.sl, snap)
    /\ tcDepth' = tcDepth + 1
    /\ entered' = Append(entered, f)
    /\ UNCHANGED <<stamped, leaveRet, snap, expectRet>>
    /\ UNCHANGED <<filterVars, globalVars, extVars>>

\* tc.Leave()
Leave ==
    /\ IF tcFrames.len = 0
       THEN /\ leaveRet' = 0
            /\ UNCHANGED <<arrays, tcFrames, tcDepth, stamped>>
       ELSE LET frame == arrays[tcFrames.arr][tcFrames.len]
            IN  /\ tcFrames' = [tcFrames EXCEPT !.len = tcFrames.len - 1]
                /\ tcDepth' = LeaveDepth(tcDepth)
                /\ stamped' = stamped \cup {frame}
                /\ leaveRet' = frame
                /\ arrays' = Collect(arrays, tcFrames', snap)
    /\ expectRet' = IF entered = <<>> THEN 0 ELSE entered[Len(entered)]
    /\ entered' = IF entered = <<>> THEN <<>> ELSE SubSeq(entered, 1, Len(entered) - 1)
    /\ UNCHANGED snap
    /\ UNCHANGED <<filterVars, globalVars, extVars>>

\* tc.Stack()
Stack ==
    /\ LET r == StackResult(arrays, tcFrames, LiveArrs(tcFrames, snap))
       IN  /\ snap' = r.sl
           /\ arrays' = Collect(r.arrs, tcFrames, r.sl)
    /\ UNCHANGED <<tcFrames, tcDepth, stamped, leaveRet, entered, expectRet>>
    /\ UNCHANGED <<filterVars, globalVars, extVars>>

\* the caller of Stack() reorders the slice it was given
SnapSwap(i, j) ==
    /\ snap # NoSnap
    /\ i < j /\ j <= snap.len
    /\ arrays' = [arrays EXCEPT ![snap.arr][i] = arrays[snap.arr][j],
                                ![snap.arr][j] = arrays[snap.arr][i]]
    /\ arrays' # arrays
    /\ UNCHANGED <<tcFrames, tcDepth, stamped, leaveRet, snap, entered, expectRet>>
    /\ UNCHANGED <<filterVars, globalVars, extVars>>

\* the caller of Stack() truncates the slice it was given
SnapTruncate ==
    /\ snap # NoSnap
    /\ snap.len > 0
    /\ snap' = [snap EXCEPT !.len = snap.len - 1]
    /\ arrays' = Collect(arrays, tcFrames, snap')
    /\ UNCHANGED <<tcFrames, tcDepth, stamped, leaveRet, entered, expectRet>>
    /\ UNCHANGED <<filterVars, globalVars, extVars>>

NextCtx ==
    \/ \E f \in FramePtrs : Enter(f)
    \/ Leave
    \/ Stack
    \/ \E i, j \in 1..MaxDepth : SnapSwap(i, j)
    \/ SnapTruncate

SpecCtx == InitCtx /\ [][NextCtx]_vars

----------------------------------------------------------------------------
(* The filter specification: a logger is constructed with some options,    *)
(* getStackFrames gathers a stack frame by frame, filterFrames runs once.  *)

\* GlobalEnhancedLogger = NewEnhancedLogger(nil)
InitFilter ==
    /\ fpc = "collect"
    /\ options = DefaultStackLoggerOptions
    /\ heap = <<>>
    /\ frames = <<>>
    /\ selfFiltered = <<>>
    /\ appFrames = <<>>
    /\ mixed = <<>>
    /\ display = <<>>
    /\ CtxIdle
    /\ GlobalIdle
    /\ ExtIdle

NumSelf(h, fs) == Cardinality({i \in 1..Len(fs) : IsSelfFrame(h, fs[i])})

\* getStackFrames: one more frame is appended to the stack being gathered;
\* every frame is a fresh *Frame.  The frames of the tracing machinery in
\* one stack are of one kind.
AppendFrame(kind) ==
    /\ fpc = "collect"
    /\ Len(frames) < MaxFrames
    /\ kind \in SelfKinds =>
           /\ NumSelf(heap, frames) < MaxSelf
           /\ \A i \in 1..Len(frames) : IsSelfFrame(heap, frames[i]) => heap[frames[i]] = kind
    /\ heap' = Append(heap, kind)
    /\ frames' = Append(frames, Len(heap) + 1)
    /\ UNCHANGED <<fpc, options, selfFiltered, appFrames, mixed, display>>
    /\ UNCHANGED <<ctxVars, globalVars, extVars>>

\* el.filterFrames(frames) on a logger made by NewEnhancedLogger(&opts):
\* the stages of filterFrames, each kept for inspection
FilterFrames ==
    /\ fpc = "collect"
    /\ LET sf == SelfFilter(heap, frames) IN
       /\ selfFiltered' = sf
       /\ \E opts \in OptionSet :
             LET result == IF Len(frames) = 0 THEN frames
                           ELSE ApplyAppFilter(heap, sf, opts)
             IN /\ options' = opts
                /\ appFrames' = CollectAppFrames(heap, sf, opts)
                /\ mixed' = result
                /\ display' = IF Len(frames) = 0 THEN frames
                              ELSE ApplyOrdering(ApplyLimit(result, opts), opts)
    /\ fpc' = "done"
    /\ UNCHANGED <<heap, frames>>
    /\ UNCHANGED <<ctxVars, globalVars, extVars>>

NextFilter ==
    \/ \E kind \in FrameKinds : AppendFrame(kind)
    \/ FilterFrames

Spec == InitFilter /\ [][NextFilter]_vars

----------------------------------------------------------------------------
(* The process-wide fallback context and the global configuration, used by *)
(* several goroutines.  A call is a sequence of steps: mutex operations    *)
(* and memory accesses.  An access lasts from its begin step to its end    *)
(* step, so that two accesses can overlap; an access that overlapped a     *)
(* write may have read the value from before or from after that write.     *)

\* the calls that reach the fallback context without a lock of their own:
\* GlobalStack() and FromContext(ctx).Enter / Leave / Stack with a ctx that
\* carries no TraceContext
ViaGetGlobalContext ==
    {"GlobalStack", "FromContextEnter", "FromContextLeave", "FromContextStack"}

CallNames == {"GlobalEnter", "GlobalLeave", "SetConfig", "IsEnabled"}
                 \cup ViaGetGlobalContext

\* which TraceContext method the call ends in
Method(name) ==
    CASE name \in {"GlobalEnter", "FromContextEnter"} -> "Enter"
      [] name \in {"GlobalLeave", "FromContextLeave"} -> "Leave"
      [] name \in {"GlobalStack", "FromContextStack"} -> "Stack"
      [] OTHER -> "none"

\* the first step of each call
FirstStep(name) ==
    CASE name = "GlobalEnter" -> "init_lock"
      [] name = "GlobalLeave" -> "peek_begin"
      [] name \in ViaGetGlobalContext -> "get_rlock"
      [] OTHER -> "cfg_begin"

InitGlobal == GlobalStart /\ FilterIdle /\ CtxIdle /\ ExtIdle

\* the arguments goroutine g may pass: an entered frame is a frame of its
\* own (CreateFrame), a new configuration is any value of Enabled
CallArgs(g, name) ==
    IF Method(name) = "Enter" THEN {g}
    ELSE IF name = "SetConfig" THEN BOOLEAN ELSE {0}

\* goroutine g calls one of the entry points
Call(g, name, arg) ==
    /\ gpc[g] = "idle"
    /\ gcalls[g] < MaxCalls
    /\ gcalls' = [gcalls EXCEPT ![g] = gcalls[g] + 1]
    /\ gop' = [gop EXCEPT ![g] = [name |-> name, arg |-> arg]]
    /\ gpc' = [gpc EXCEPT ![g] = FirstStep(name)]
    /\ gtc' = [gtc EXCEPT ![g] = "none"]
    /\ UNCHANGED <<globalContext, gInst, globalMutex, Config, acc, gseen, gret,
                   instances, liveEntered>>
    /\ UNCHANGED <<filterVars, ctxVars, extVars>>

\* globalMutex.Lock(): InitGlobalContext (1274), GlobalEnter (1416),
\* GlobalLeave (1428)
MutexLock(g) ==
    /\ gpc[g] \in {"init_lock", "op_lock"}
    /\ globalMutex.writer = 0 /\ globalMutex.readers = {}
    /\ globalMutex' = [globalMutex EXCEPT !.writer = g]
    /\ gpc' = [gpc EXCEPT ![g] = IF gpc[g] = "init_lock" THEN "init_begin" ELSE "op_begin"]
    /\ gtc' = [gtc EXCEPT ![g] = IF gpc[g] = "op_lock" THEN "global" ELSE gtc[g]]
    /\ UNCHANGED <<globalContext, gInst, Config, gop, acc, gseen, gret, gcalls,
                   instances, liveEntered>>
    /\ UNCHANGED <<filterVars, ctxVars, extVars>>

\* the deferred globalMutex.Unlock(); after GlobalEnter / GlobalLeave it ends
\* the call
MutexUnlock(g) ==
    /\ gpc[g] \in {"init_unlock", "op_unlock"}
    /\ globalMutex' = [globalMutex EXCEPT !.writer = 0]
    /\ gpc' = [gpc EXCEPT ![g] = IF gpc[g] = "init_unlock" THEN "op_lock" ELSE "idle"]
    /\ UNCHANGED <<globalContext, gInst, Config, gop, gtc, acc, gseen, gret,
                   gcalls, instances, liveEntered>>
    /\ UNCHANGED <<filterVars, ctxVars, extVars>>

\* InitGlobalContext, lines 1277-1283: under the lock, create the context
\* if there is none
InitBegin(g) ==
    /\ gpc[g] = "init_begin"
    /\ acc' = [acc EXCEPT ![g] =
                  [res |-> "globalContext",
                   mode |-> IF globalContext = "nil" THEN "write" ELSE "read"]]
    /\ gpc' = [gpc EXCEPT ![g] = "init_end"]
    /\ UNCHANGED <<globalContext, gInst, globalMutex, Config, gop, gtc, gseen,
                   gret, gcalls, instances, liveEntered>>
    /\ UNCHANGED <<filterVars, ctxVars, extVars>>

InitEnd(g) ==
    /\ gpc[g] = "init_end"
    /\ IF globalContext = "nil"
       THEN /\ globalContext' = "set"
            /\ gInst' = EmptyInst
            /\ instances' = IF instances < 2 THEN instances + 1 ELSE 2
       ELSE UNCHANGED <<globalContext, gInst, instances>>
    /\ acc' = [acc EXCEPT ![g] = NoAccess]
    /\ gpc' = [gpc EXCEPT ![g] = "init_unlock"]
    /\ UNCHANGED <<globalMutex, Config, gop, gtc, gseen, gret, gcalls, liveEntered>>
    /\ UNCHANGED <<filterVars, ctxVars, extVars>>

\* GlobalLeave, lines 1424-1426: globalContext is read before the lock is
\* taken; nil ends the call
PeekBegin(g) ==
    /\ gpc[g] = "peek_begin"
    /\ acc' = [acc EXCEPT ![g] = [res |-> "globalContext", mode |-> "read"]]
    /\ gseen' = [gseen EXCEPT ![g] = globalContext]
    /\ gpc' = [gpc EXCEPT ![g] = "peek_end"]
    /\ UNCHANGED <<globalContext, gInst, globalMutex, Config, gop, gtc, gret,
                   gcalls, instances, liveEntered>>
    /\ UNCHANGED <<filterVars, ctxVars, extVars>>

PeekEnd(g) ==
    /\ gpc[g] = "peek_end"
    /\ \E sawNil \in {gseen[g] = "nil", globalContext = "nil"} :
          IF sawNil
          THEN /\ gpc' = [gpc EXCEPT ![g] = "idle"]
               /\ gret' = [gret EXCEPT ![g] = <<0>>]
          ELSE /\ gpc' = [gpc EXCEPT ![g] = "op_lock"]
               /\ UNCHANGED gret
    /\ acc' = [acc EXCEPT ![g] = NoAccess]
    /\ gseen' = [gseen EXCEPT ![g] = EmptyInst]
    /\ UNCHANGED <<globalContext, gInst, globalMutex, Config, gop, gtc, gcalls,
                   instances, liveEntered>>
    /\ UNCHANGED <<filterVars, ctxVars, extVars>>

\* GetGlobalContext, line 1288: globalMutex.RLock()
MutexRLock(g) ==
    /\ gpc[g] = "get_rlock"
    /\ globalMutex.writer = 0
    /\ globalMutex' = [globalMutex EXCEPT !.readers = @ \cup {g}]
    /\ gpc' = [gpc EXCEPT ![g] = "get_begin"]
    /\ UNCHANGED <<globalContext, gInst, Config, gop, gtc, acc, gseen, gret,
                   gcalls, instances, liveEntered>>
    /\ UNCHANGED <<filterVars, ctxVars, extVars>>

\* GetGlobalContext, lines 1291-1299: under the read lock, return the
\* context, or a new TraceContext that is stored nowhere when there is none
GetBegin(g) ==
    /\ gpc[g] = "get_begin"
    /\ acc' = [acc EXCEPT ![g] = [res |-> "globalContext", mode |-> "read"]]
    /\ gpc' = [gpc EXCEPT ![g] = "get_end"]
    /\ UNCHANGED <<globalContext, gInst, globalMutex, Config, gop, gtc, gseen,
                   gret, gcalls, instances, liveEntered>>
    /\ UNCHANGED <<filterVars, ctxVars, extVars>>

\* what GetGlobalContext returns, and whether it is a new instance
GetResult(gc) ==
    IF gc = "nil" THEN [tc |-> "temp", fresh |-> TRUE]
    ELSE [tc |-> "global", fresh |-> FALSE]

GetEnd(g) ==
    /\ gpc[g] = "get_end"
    /\ gtc' = [gtc EXCEPT ![g] = GetResult(globalContext).tc]
    /\ instances' = IF GetResult(globalContext).fresh /\ instances < 2
                    THEN instances + 1 ELSE instances
    /\ acc' = [acc EXCEPT ![g] = NoAccess]
    /\ gpc' = [gpc EXCEPT ![g] = "get_runlock"]
    /\ UNCHANGED <<globalContext, gInst, globalMutex, Config, gop, gseen, gret,
                   gcalls, liveEntered>>
    /\ UNCHANGED <<filterVars, ctxVars, extVars>>

\* the deferred globalMutex.RUnlock() of GetGlobalContext
MutexRUnlock(g) ==
    /\ gpc[g] = "get_runlock"
    /\ globalMutex' = [globalMutex EXCEPT !.readers = @ \ {g}]
    /\ gpc' = [gpc EXCEPT ![g] = "op_begin"]
    /\ UNCHANGED <<globalContext, gInst, Config, gop, gtc, acc, gseen, gret,
                   gcalls, instances, liveEntered>>
    /\ UNCHANGED <<filterVars, ctxVars, extVars>>

\* the instance a resolved *TraceContext denotes: the process-wide one, or a
\* new empty one
Target(g) == IF gtc[g] = "global" THEN gInst ELSE EmptyInst

\* tc.Enter / tc.Leave / tc.Stack begins to read (and write) tc.Frames
OpBegin(g) ==
    /\ gpc[g] = "op_begin"
    /\ acc' = [acc EXCEPT ![g] =
                  [res |-> IF gtc[g] = "global" THEN "Frames" ELSE "temp",
                   mode |-> IF Method(gop[g].name) = "Stack" THEN "read" ELSE "write"]]
    /\ gseen' = [gseen EXCEPT ![g] = Target(g)]
    /\ gpc' = [gpc EXCEPT ![g] = "op_end"]
    /\ UNCHANGED <<globalContext, gInst, globalMutex, Config, gop, gtc, gret,
                   gcalls, instances, liveEntered>>
    /\ UNCHANGED <<filterVars, ctxVars, extVars>>

\* the sequence s without the last occurrence of x
RECURSIVE RemoveLast(_, _)
RemoveLast(s, x) ==
    IF s = <<>> THEN <<>>
    ELSE IF s[Len(s)] = x THEN SubSeq(s, 1, Len(s) - 1)
         ELSE Append(RemoveLast(SubSeq(s, 1, Len(s) - 1), x), s[Len(s)])

\* lines 1335-1336, 1341-1347, 1365-1367 applied to the instance value `in`:
\* the new instance value and the returned value
MethodResult(m, in, f) ==
    CASE m = "Enter" -> [inst |-> [Frames |-> Append(in.Frames, f), Depth |-> in.Depth + 1],
                         ret  |-> <<>>]
      [] m = "Leave" -> IF Len(in.Frames) = 0
                        THEN [inst |-> in, ret |-> <<0>>]
                        ELSE [inst |-> [Frames |-> SubSeq(in.Frames, 1, Len(in.Frames) - 1),
                                        Depth  |-> in.Depth - 1],
                              ret  |-> <<in.Frames[Len(in.Frames)]>>]
      [] OTHER       -> [inst |-> in, ret |-> in.Frames]

\* the access ends: the method took effect on the value it read
OpEnd(g) ==
    /\ gpc[g] = "op_end"
    /\ \E in \in {gseen[g], Target(g)} :
          LET r == MethodResult(Method(gop[g].name), in, gop[g].arg)
          IN  /\ gInst' = IF gtc[g] = "global" /\ Method(gop[g].name) # "Stack"
                          THEN r.inst ELSE gInst
              /\ gret' = [gret EXCEPT ![g] = r.ret]
              /\ liveEntered' =
                    CASE Method(gop[g].name) = "Enter" -> Append(liveEntered, gop[g].arg)
                      [] Method(gop[g].name) = "Leave" /\ r.ret # <<0>> ->
                             RemoveLast(liveEntered, r.ret[1])
                      [] OTHER -> liveEntered
    /\ acc' = [acc EXCEPT ![g] = NoAccess]
    /\ gseen' = [gseen EXCEPT ![g] = EmptyInst]
    /\ gpc' = [gpc EXCEPT ![g] =
                  IF gop[g].name \in {"GlobalEnter", "GlobalLeave"} THEN "op_unlock" ELSE "idle"]
    /\ UNCHANGED <<globalContext, globalMutex, Config, gop, gtc, gcalls, instances>>
    /\ UNCHANGED <<filterVars, ctxVars, extVars>>

\* SetConfig (devtrace.go 82-84) / IsEnabled (87-89) begin to access Config
ConfigBegin(g) ==
    /\ gpc[g] = "cfg_begin"
    /\ acc' = [acc EXCEPT ![g] =
                  [res |-> "Config",
                   mode |-> IF gop[g].name = "SetConfig" THEN "write" ELSE "read"]]
    /\ gseen' = [gseen EXCEPT ![g] = Config]
    /\ gpc' = [gpc EXCEPT ![g] = "cfg_end"]
    /\ UNCHANGED <<globalContext, gInst, globalMutex, Config, gop, gtc, gret,
                   gcalls, instances, liveEntered>>
    /\ UNCHANGED <<filterVars, ctxVars, extVars>>

ConfigEnd(g) ==
    /\ gpc[g] = "cfg_end"
    /\ IF gop[g].name = "SetConfig"
       THEN /\ Config' = gop[g].arg
            /\ UNCHANGED gret
       ELSE /\ \E v \in {gseen[g], Config} : gret' = [gret EXCEPT ![g] = <<v>>]
            /\ UNCHANGED Config
    /\ acc' = [acc EXCEPT ![g] = NoAccess]
    /\ gseen' = [gseen EXCEPT ![g] = EmptyInst]
    /\ gpc' = [gpc EXCEPT ![g] = "idle"]
    /\ UNCHANGED <<globalContext, gInst, globalMutex, gop, gtc, gcalls,
                   instances, liveEntered>>
    /\ UNCHANGED <<filterVars, ctxVars, extVars>>

NextGlobal ==
    \E g \in Goroutines :
        \/ \E name \in CallNames : \E arg \in CallArgs(g, name) : Call(g, name, arg)
        \/ MutexLock(g)
        \/ MutexUnlock(g)
        \/ InitBegin(g)
        \/ InitEnd(g)
        \/ PeekBegin(g)
        \/ PeekEnd(g)
        \/ MutexRLock(g)
        \/ GetBegin(g)
        \/ GetEnd(g)
        \/ MutexRUnlock(g)
        \/ OpBegin(g)
        \/ OpEnd(g)
        \/ ConfigBegin(g)
        \/ ConfigEnd(g)

SpecGlobal == InitGlobal /\ [][NextGlobal]_vars

----------------------------------------------------------------------------
(* Signature resolution: parseFileSignatures, getSignatureForLocation and  *)
(* the signature cache.  A source file is the list of its top-level        *)
(* function declarations, each with its name, the lines of its first and   *)
(* last token and its parameters; functions here declare no results.       *)

HasSuffix(s, suffix) ==
    /\ Len(suffix) <= Len(s)
    /\ SubSeq(s, Len(s) - Len(suffix) + 1, Len(s)) = suffix

HasPrefix(s, prefix) ==
    /\ Len(prefix) <= Len(s)
    /\ SubSeq(s, 1, Len(prefix)) = prefix

\* strings.Join
RECURSIVE Join(_, _)
Join(parts, sep) ==
    IF Len(parts) = 0 THEN <<>>
    ELSE IF Len(parts) = 1 THEN parts[1]
    ELSE parts[1] \o sep \o Join(Tail(parts), sep)

\* lines 254-271
extractParamNames(fn) == [i \in 1..Len(fn.params) |-> fn.params[i].name]

\* lines 273-323, for a declaration without results
formatFuncSignature(fn) ==
    fn.name \o <<"(">>
    \o Join([i \in 1..Len(fn.params) |->
                IF fn.params[i].name = <<>> THEN fn.params[i].type
                ELSE fn.params[i].name \o <<" ">> \o fn.params[i].type],
            <<",", " ">>)
    \o <<")">>

\* lines 229-251: one functionSignature per declaration, in source order
FunctionSignatures(decls) ==
    [i \in 1..Len(decls) |->
        [name |-> decls[i].name, startLine |-> decls[i].start,
         endLine |-> decls[i].end, signature |-> formatFuncSignature(decls[i]),
         params |-> extractParamNames(decls[i])]]

\* lines 203-214: the index of the first function accepted, 0 for nil
RECURSIVE ScanFunctions(_, _, _, _)
ScanFunctions(functions, i, line, functionName) ==
    IF i > Len(functions) THEN 0
    ELSE IF line < functions[i].startLine \/ line > functions[i].endLine
         THEN ScanFunctions(functions, i + 1, line, functionName)
    ELSE IF functionName # <<>> /\ functions[i].name # <<>>
            /\ ~HasSuffix(functionName, functions[i].name)
         THEN ScanFunctions(functions, i + 1, line, functionName)
    ELSE i

----------------------------------------------------------------------------
(* The signature cache under concurrent lookups.  Each goroutine runs      *)
(* getSignatureForLocation step by step; the file FileA may be saved by its author   *)
(* at any moment.                                                          *)

\* the declarations in FileA, before and after it is edited
DeclA(endLine) ==
    <<[name |-> <<"a">>, start |-> 1, end |-> endLine, params |-> <<>>]>>

FileDecls(data) == IF data = "v1" THEN DeclA(1) ELSE DeclA(2)

LookupFiles == {<<>>} \cup SourceFiles
LookupLines == 0..2

InitSig == SigStart /\ FilterIdle /\ CtxIdle /\ GlobalIdle /\ ResIdle /\ NormIdle /\ MemoIdle /\ TraceIdle /\ MoreIdle

\* lines 217-227 and 229-251: a fresh *fileSignature, or nil
parseFileSignatures(g, file) ==
    IF fsys[file] = "unreadable" THEN NilEntry
    ELSE [ok |-> TRUE, by |-> g, n |-> look[g].calls, data |-> fsys[file]]

\* line 189: entry, ok := signatureCache[file]
CacheHit_NilIsMiss(entry) == entry.ok /\ entry # NilEntry

CacheHit(entry) == entry.ok

\* lines 183-186: the call, and its early return
Lookup(g, file, line) ==
    /\ look[g].pc = "idle"
    /\ look[g].calls < MaxLookups
    /\ look' = [look EXCEPT ![g] =
          [pc |-> IF file = <<>> \/ line <= 0 THEN "idle" ELSE "rlock",
           file |-> file, line |-> line, entry |-> NoEntry, ok |-> FALSE,
           ret |-> 0, stored |-> FALSE, calls |-> look[g].calls + 1]]
    /\ sigHist' = [sigHist EXCEPT !.overlap =
          @ \/ \E h \in Lookers \ {g} : look[h].pc # "idle"]
    /\ UNCHANGED <<signatureCache, signatureCacheMu, fsys>>
    /\ UNCHANGED sigOthers

\* line 188
SigRLock(g) ==
    /\ look[g].pc = "rlock"
    /\ signatureCacheMu.writer = 0
    /\ signatureCacheMu' = [signatureCacheMu EXCEPT !.readers = @ \cup {g}]
    /\ look' = [look EXCEPT ![g].pc = "read"]
    /\ UNCHANGED <<signatureCache, fsys, sigHist>>
    /\ UNCHANGED sigOthers

\* line 189
SigRead(g) ==
    /\ look[g].pc = "read"
    /\ look' = [look EXCEPT ![g].pc = "runlock",
                            ![g].entry = signatureCache[look[g].file],
                            ![g].ok = CacheHit(signatureCache[look[g].file])]
    /\ UNCHANGED <<signatureCache, signatureCacheMu, fsys, sigHist>>
    /\ UNCHANGED sigOthers

\* lines 190-192
SigRUnlock(g) ==
    /\ look[g].pc = "runlock"
    /\ signatureCacheMu' = [signatureCacheMu EXCEPT !.readers = @ \ {g}]
    /\ look' = [look EXCEPT ![g].pc = IF look[g].ok THEN "scan" ELSE "parse"]
    /\ UNCHANGED <<signatureCache, fsys, sigHist>>
    /\ UNCHANGED sigOthers

\* line 193
SigParse(g) ==
    /\ look[g].pc = "parse"
    /\ look' = [look EXCEPT ![g].pc = "lock",
                            ![g].entry = parseFileSignatures(g, look[g].file)]
    /\ sigHist' = [sigHist EXCEPT !.parses[look[g].file] = @ + 1]
    /\ UNCHANGED <<signatureCache, signatureCacheMu, fsys>>
    /\ UNCHANGED sigOthers

\* line 194
SigLock(g) ==
    /\ look[g].pc = "lock"
    /\ signatureCacheMu.writer = 0 /\ signatureCacheMu.readers = {}
    /\ signatureCacheMu' = [signatureCacheMu EXCEPT !.writer = g]
    /\ look' = [look EXCEPT ![g].pc = "store"]
    /\ UNCHANGED <<signatureCache, fsys, sigHist>>
    /\ UNCHANGED sigOthers

\* line 195
SigStore(g) ==
    /\ look[g].pc = "store"
    /\ signatureCache' = [signatureCache EXCEPT ![look[g].file] = look[g].entry]
    /\ look' = [look EXCEPT ![g].pc = "unlock", ![g].stored = TRUE]
    /\ UNCHANGED <<signatureCacheMu, fsys, sigHist>>
    /\ UNCHANGED sigOthers

\* line 196
SigUnlock(g) ==
    /\ look[g].pc = "unlock"
    /\ signatureCacheMu' = [signatureCacheMu EXCEPT !.writer = 0]
    /\ look' = [look EXCEPT ![g].pc = "scan"]
    /\ UNCHANGED <<signatureCache, fsys, sigHist>>
    /\ UNCHANGED sigOthers

\* lines 199-214; ret is the index of the function returned, 0 for nil
SigScan(g) ==
    /\ look[g].pc = "scan"
    /\ look' = [look EXCEPT ![g].pc = "idle",
          ![g].ret = IF look[g].entry = NilEntry THEN 0
                     ELSE ScanFunctions(FunctionSignatures(FileDecls(look[g].entry.data)),
                                        1, look[g].line, <<>>)]
    /\ UNCHANGED <<signatureCache, signatureCacheMu, fsys, sigHist>>
    /\ UNCHANGED sigOthers

\* the author of FileA saves a new version of it
EditFile ==
    /\ fsys' = [fsys EXCEPT ![FileA] = IF @ = "v1" THEN "v2" ELSE "v1"]
    /\ UNCHANGED <<signatureCache, signatureCacheMu, look, sigHist>>
    /\ UNCHANGED sigOthers

NextSig ==
    \/ \E g \in Lookers :
          \/ \E file \in LookupFiles : \E line \in LookupLines : Lookup(g, file, line)
          \/ SigRLock(g)
          \/ SigRead(g)
          \/ SigRUnlock(g)
          \/ SigParse(g)
          \/ SigLock(g)
          \/ SigStore(g)
          \/ SigUnlock(g)
          \/ SigScan(g)
    \/ EditFile

SpecSig == InitSig /\ [][NextSig]_vars

----------------------------------------------------------------------------
(* One resolution on a parsed file.  The file is built declaration by      *)
(* declaration in source order: a declaration starts on or after the line  *)
(* the one before it ends on (two declarations may share a line).          *)

DeclNames == {<<"R","u","n">>, <<"P","r","e","R","u","n">>}

\* runtime function names of the frames looked up, and the empty name
CandidateNames == {<<>>, <<"p",".","R","u","n">>, <<"p",".","P","r","e","R","u","n">>}

InitResolve ==
    /\ resolver = [pc |-> "build", decls |-> <<>>, line |-> 0, name |-> <<>>, ret |-> 0]
    /\ SigIdle /\ FilterIdle /\ CtxIdle /\ GlobalIdle /\ NormIdle /\ MemoIdle /\ TraceIdle /\ MoreIdle

\* lines 231-249: the parser meets one more *ast.FuncDecl
AddDecl(name, start, end) ==
    /\ resolver.pc = "build"
    /\ Len(resolver.decls) < MaxDecls
    /\ start <= end
    /\ Len(resolver.decls) > 0 => resolver.decls[Len(resolver.decls)].end <= start
    /\ resolver' = [resolver EXCEPT !.decls =
          Append(@, [name |-> name, start |-> start, end |-> end, params |-> <<>>])]
    /\ UNCHANGED resOthers

\* lines 199-214 on the entry parsed from the file
Resolve(line, functionName) ==
    /\ resolver.pc = "build"
    /\ resolver' = [resolver EXCEPT !.pc = "done", !.line = line, !.name = functionName,
          !.ret = ScanFunctions(FunctionSignatures(resolver.decls), 1, line, functionName)]
    /\ UNCHANGED resOthers

NextResolve ==
    \/ \E name \in DeclNames : \E start, end \in 1..MaxLine : AddDecl(name, start, end)
    \/ \E line \in 1..(MaxLine + 1) : \E name \in CandidateNames : Resolve(line, name)

SpecResolve == InitResolve /\ [][NextResolve]_vars

----------------------------------------------------------------------------
(* normalizeFrameArgs.  frame.Args is a map from keys (strings) to values; *)
(* a map is a function whose domain is the set of its keys.                *)

Digit(d) == <<"0", "1", "2", "3", "4", "5", "6", "7", "8", "9">>[d + 1]

\* strconv of a non-negative int, as %d prints it
RECURSIVE Itoa(_)
Itoa(i) == IF i < 10 THEN <<Digit(i)>> ELSE Itoa(i \div 10) \o <<Digit(i % 10)>>

S_arg == <<"a", "r", "g">>

\* line 346: fmt.Sprintf("arg%d", i)
ArgKey(i) == S_arg \o Itoa(i)

\* normalized[name] = val
MapSet(m, k, v) == [x \in DOMAIN m \cup {k} |-> IF x = k THEN v ELSE m[x]]

\* lines 345-358: the loop over paramNames from index i (0-based) on
RECURSIVE NamedArgs(_, _, _, _)
NamedArgs(Args, paramNames, i, normalized) ==
    IF i >= Len(paramNames) THEN normalized
    ELSE IF ArgKey(i) \notin DOMAIN Args
         THEN NamedArgs(Args, paramNames, i + 1, normalized)
    ELSE NamedArgs(Args, paramNames, i + 1,
                   MapSet(normalized,
                          IF paramNames[i + 1] = <<>> THEN ArgKey(i) ELSE paramNames[i + 1],
                          Args[ArgKey(i)]))

\* line 361: the keys the second loop skips
Skipped(k) == HasPrefix(k, S_arg)

\* lines 360-365: the loop over frame.Args; its keys are distinct, so the
\* order of the range does not show in the result
PassThrough(Args, normalized) ==
    LET kept == {k \in DOMAIN Args : ~Skipped(k)}
    IN  [k \in DOMAIN normalized \cup kept |->
            IF k \in kept THEN Args[k] ELSE normalized[k]]

\* lines 338-368: the new value of frame.Args
normalizeFrameArgs(Args, paramNames) ==
    IF DOMAIN Args = {} \/ Len(paramNames) = 0 THEN Args
    ELSE PassThrough(Args, NamedArgs(Args, paramNames, 0, EmptyMap))

\* keys and values a caller captures, names a function declares
ArgKeys   == {ArgKey(0), ArgKey(1), S_arg \o <<"s">>, <<"x">>}
ArgValues == {1, 2}
ArgMaps   == UNION {[ks -> ArgValues] : ks \in SUBSET ArgKeys}
ParamNames == {<<>>, <<"x">>, ArgKey(1)}
ParamLists == UNION {[1..n -> ParamNames] : n \in 0..MaxParams}

InitNorm ==
    /\ \E a \in ArgMaps : \E ps \in ParamLists :
          norm = [pc |-> "new", Args |-> a, params |-> ps, orig |-> a, once |-> a]
    /\ SigIdle /\ FilterIdle /\ CtxIdle /\ GlobalIdle /\ ResIdle /\ MemoIdle /\ TraceIdle /\ MoreIdle

\* normalizeFrameArgs(frame, paramNames), for the first and the second time
Normalize ==
    /\ norm.pc \in {"new", "once"}
    /\ norm' = [norm EXCEPT
          !.pc = IF norm.pc = "new" THEN "once" ELSE "twice",
          !.Args = normalizeFrameArgs(norm.Args, norm.params),
          !.once = IF norm.pc = "new" THEN normalizeFrameArgs(norm.Args, norm.params) ELSE @]
    /\ UNCHANGED normOthers

NextNorm == Normalize

SpecNorm == InitNorm /\ [][NextNorm]_vars

----------------------------------------------------------------------------
(* Memoisation onto shared frames.  Two goroutines call LogWithStack with  *)
(* contexts that resolve to the same TraceContext.  Stack() hands each a   *)
(* copy of the slice, whose elements are the same *Frame pointers.  Each   *)
(* read or write of a frame's field is an interval from its begin step to  *)
(* its end step; no lock is taken around any of them.                      *)

\* the declaration each entered frame's location resolves to
FrameDecl(f) ==
    [name |-> <<"f", Digit(f)>>, start |-> 1, end |-> 2,
     params |-> <<[name |-> <<"x">>, type |-> <<"i", "n", "t">>]>>]

\* CreateFrame (lines 1387-1394) leaves Signature empty and keeps the
\* positional argument map; the context holds one or two such frames
InitMemo ==
    /\ \E n \in 1..2 :
          shared = [stack |-> [i \in 1..n |-> i],
                    Signature |-> [i \in 1..n |-> <<>>],
                    Args |-> [i \in 1..n |-> (ArgKey(0) :> i)]]
    /\ logr = [g \in Loggers |-> IdleLogger]
    /\ SigIdle /\ FilterIdle /\ CtxIdle /\ GlobalIdle /\ ResIdle /\ NormIdle /\ TraceIdle /\ MoreIdle

\* lines 565-571: buildRouteLine resolves the first and the last frame,
\* then formatFrame resolves every frame and reads its Args
ResolveOrder(filtered) ==
    <<[frame |-> filtered[1], for |-> "route"],
      [frame |-> filtered[Len(filtered)], for |-> "route"]>>
    \o [i \in 1..Len(filtered) |-> [frame |-> filtered[i], for |-> "format"]]

\* lines 558-559: traceCtx.Stack() copies the slice of pointers
LogBegin(g) ==
    /\ logr[g].pc = "idle"
    /\ logr' = [logr EXCEPT ![g].pc = "sig_read", ![g].todo = ResolveOrder(shared.stack)]
    /\ UNCHANGED shared
    /\ UNCHANGED memoOthers

\* the frame goroutine g is working on
Cur(g) == logr[g].todo[1].frame

\* what follows the resolution of the current frame: formatFrame reads
\* frame.Args (line 152), buildRouteLine goes on to the next frame
AfterResolve(g) == IF logr[g].todo[1].for = "format" THEN "fmt_read" ELSE "next"

\* a read that overlaps a write returns the old or the new value
ReadValues(g, now) == {logr[g].seen, now}

\* line 170: read frame.Signature
SigReadBegin(g) ==
    /\ logr[g].pc = "sig_read" /\ logr[g].acc = NoFieldAccess
    /\ logr' = [logr EXCEPT ![g].acc = [frame |-> Cur(g), field |-> "Signature", mode |-> "read"],
                            ![g].seen = shared.Signature[Cur(g)]]
    /\ UNCHANGED shared
    /\ UNCHANGED memoOthers

\* lines 170-174: a non-empty Signature is returned, an empty one is
\* looked up; every frame here resolves (fnSig != nil)
SigReadEnd(g) ==
    /\ logr[g].pc = "sig_read" /\ logr[g].acc # NoFieldAccess
    /\ \E v \in ReadValues(g, shared.Signature[Cur(g)]) :
          logr' = [logr EXCEPT ![g].acc = NoFieldAccess, ![g].seen = <<>>,
                     ![g].pc = IF v # <<>> THEN AfterResolve(g) ELSE "sig_write",
                     ![g].val = IF v # <<>> THEN <<>>
                                ELSE formatFuncSignature(FrameDecl(Cur(g)))]
    /\ UNCHANGED shared
    /\ UNCHANGED memoOthers

\* line 175: frame.Signature = fnSig.signature
SigWriteBegin(g) ==
    /\ logr[g].pc = "sig_write" /\ logr[g].acc = NoFieldAccess
    /\ logr' = [logr EXCEPT ![g].acc = [frame |-> Cur(g), field |-> "Signature", mode |-> "write"]]
    /\ UNCHANGED shared
    /\ UNCHANGED memoOthers

SigWriteEnd(g) ==
    /\ logr[g].pc = "sig_write" /\ logr[g].acc # NoFieldAccess
    /\ shared' = [shared EXCEPT !.Signature[Cur(g)] = logr[g].val]
    /\ logr' = [logr EXCEPT ![g].acc = NoFieldAccess, ![g].pc = "args_read", ![g].val = <<>>]
    /\ UNCHANGED memoOthers

\* lines 339-365: normalizeFrameArgs reads frame.Args
ArgsReadBegin(g) ==
    /\ logr[g].pc \in {"args_read", "fmt_read"} /\ logr[g].acc = NoFieldAccess
    /\ logr' = [logr EXCEPT ![g].acc = [frame |-> Cur(g), field |-> "Args", mode |-> "read"],
                            ![g].seen = shared.Args[Cur(g)]]
    /\ UNCHANGED shared
    /\ UNCHANGED memoOthers

\* lines 343-365 build the normalised map from what was read; line 152
\* (formatFrame) only renders what it read
ArgsReadEnd(g) ==
    /\ logr[g].pc \in {"args_read", "fmt_read"} /\ logr[g].acc # NoFieldAccess
    /\ \E v \in ReadValues(g, shared.Args[Cur(g)]) :
          logr' = [logr EXCEPT ![g].acc = NoFieldAccess, ![g].seen = <<>>,
                     ![g].pc = IF logr[g].pc = "fmt_read" THEN "next" ELSE "args_write",
                     ![g].val = IF logr[g].pc = "fmt_read" THEN <<>>
                                ELSE normalizeFrameArgs(v, extractParamNames(FrameDecl(Cur(g))))]
    /\ UNCHANGED shared
    /\ UNCHANGED memoOthers

\* line 367: frame.Args = normalized
ArgsWriteBegin(g) ==
    /\ logr[g].pc = "args_write" /\ logr[g].acc = NoFieldAccess
    /\ logr' = [logr EXCEPT ![g].acc = [frame |-> Cur(g), field |-> "Args", mode |-> "write"]]
    /\ UNCHANGED shared
    /\ UNCHANGED memoOthers

ArgsWriteEnd(g) ==
    /\ logr[g].pc = "args_write" /\ logr[g].acc # NoFieldAccess
    /\ shared' = [shared EXCEPT !.Args[Cur(g)] = logr[g].val]
    /\ logr' = [logr EXCEPT ![g].acc = NoFieldAccess, ![g].pc = AfterResolve(g), ![g].val = <<>>]
    /\ UNCHANGED memoOthers

\* the next frame, or the end of the call (line 602)
NextFrame(g) ==
    /\ logr[g].pc = "next"
    /\ logr' = [logr EXCEPT ![g].todo = Tail(@),
                            ![g].pc = IF Len(logr[g].todo) = 1 THEN "done" ELSE "sig_read"]
    /\ UNCHANGED shared
    /\ UNCHANGED memoOthers

NextMemo ==
    \E g \in Loggers :
        \/ LogBegin(g)
        \/ SigReadBegin(g)
        \/ SigReadEnd(g)
        \/ SigWriteBegin(g)
        \/ SigWriteEnd(g)
        \/ ArgsReadBegin(g)
        \/ ArgsReadEnd(g)
        \/ ArgsWriteBegin(g)
        \/ ArgsWriteEnd(g)
        \/ NextFrame(g)

SpecMemo == InitMemo /\ [][NextMemo]_vars

----------------------------------------------------------------------------
(* Properties of filterFrames *)

Min(a, b) == IF a < b THEN a ELSE b

Reverse(s) == [i \in 1..Len(s) |-> s[Len(s) + 1 - i]]

\* the last k elements of s (all of s when it has at most k)
LastK(s, k) == IF Len(s) > k THEN SubSeq(s, Len(s) - k + 1, Len(s)) ELSE s

Elems(s) == {s[i] : i \in 1..Len(s)}

NoRepeats(s) == \A i, j \in 1..Len(s) : s[i] = s[j] => i = j

\* the display read root -> call-site whatever the configured direction
AscendingView == IF options.Ascending THEN display ELSE Reverse(display)

\* the limit the spec prescribes: the configured one, 5 by default, at most 5
EffectiveLimit ==
    IF options.Limit <= 0 \/ options.Limit > 5 THEN 5 ELSE options.Limit

\* the frames the bounding step chooses from: the application frames under
\* onlyApp when there are any, otherwise every self-filtered frame
Candidates ==
    IF options.OnlyApp /\ appFrames # <<>> THEN appFrames ELSE selfFiltered

\* C1: whatever the input and the options (Limit > 5 included), the display
\* stack returned by filterFrames has at most 5 frames.
C1_DisplayAtMostFive ==
    fpc = "done" => Len(display) <= 5

C1_Witness ==
    /\ fpc = "done"
    /\ options.Limit > 5
    /\ Len(selfFiltered) > 5
    /\ Len(display) = 5

\* C2: when the limit drops frames, the frames kept are the innermost ones:
\* with more candidates than the effective limit k, the display is the k
\* innermost candidates, under every option combination.
C2_KeepsInnermost ==
    (fpc = "done" /\ Len(Candidates) > EffectiveLimit)
        => AscendingView = LastK(Candidates, EffectiveLimit)

\* C3: the display produced with ascending=false is the exact reverse of the
\* display produced with ascending=true from the same frames and options.
C3_DescendingIsReverse ==
    fpc = "done" =>
        filterFrames(heap, frames, [options EXCEPT !.Ascending = ~options.Ascending])
            = Reverse(display)

C3_Witness ==
    /\ fpc = "done"
    /\ ~options.Ascending
    /\ Len(display) >= 3
    /\ display # Reverse(display)

\* C4: no frame whose Function contains "devtrace." or "runtime.", or whose
\* File contains "devtrace", is ever in the display.
C4_NoSelfFrames ==
    fpc = "done" =>
        \A i \in 1..Len(display) :
            /\ ~Contains(heap[display[i]].Function, S_devtraceDot)
            /\ ~Contains(heap[display[i]].Function, S_runtimeDot)
            /\ ~Contains(heap[display[i]].File, S_devtrace)

C4_Witness ==
    /\ fpc = "done"
    /\ \E i \in 1..Len(frames) : heap[frames[i]] = RuntimeFrame
    /\ display # <<>>

\* C5: with preferApp set, onlyApp unset and an application frame present,
\* the mixed result holds the application frames first in their original
\* order, then non-application filler, no frame twice, and has exactly
\* min(Limit, number of self-filtered frames) frames.
C5_MixedFillsToLimit ==
    (/\ fpc = "done"
     /\ options.PreferApp /\ ~options.OnlyApp
     /\ options.Limit >= 0
     /\ appFrames # <<>>)
        => /\ Len(mixed) = Min(options.Limit, Len(selfFiltered))
           /\ NoRepeats(mixed)
           /\ LET n == Min(Len(mixed), Len(appFrames))
              IN  SubSeq(mixed, 1, n) = SubSeq(appFrames, 1, n)

\* C6: with onlyApp set, every displayed frame is an application frame when
\* one exists; when none exists the display falls back to the self-filtered
\* frames (bounded, non-empty whenever they are non-empty); an empty input
\* gives an empty display.
C6_OnlyApp ==
    fpc = "done" =>
        /\ (options.OnlyApp /\ appFrames # <<>>) =>
               \A i \in 1..Len(display) :
                   Contains(heap[display[i]].File, options.AppPattern)
        /\ (options.OnlyApp /\ appFrames = <<>>) =>
               /\ AscendingView = LastK(selfFiltered, EffectiveLimit)
               /\ (selfFiltered # <<>> => display # <<>>)
        /\ (frames = <<>> => display = <<>>)

C6_Witness ==
    /\ fpc = "done"
    /\ options.OnlyApp
    /\ appFrames = <<>>
    /\ selfFiltered # <<>>
    /\ display # <<>>

----------------------------------------------------------------------------
(* Properties of one TraceContext *)

\* C7: after any sequence of Enter and Leave, Frames is the sequence of
\* entered-and-not-yet-left frames in entry order, Depth = len(Frames) >= 0,
\* Leave returns the tail, and Leave on an empty stack returns none and
\* changes nothing.
C7_StackDiscipline ==
    /\ SliceElems(arrays, tcFrames) = entered
    /\ tcDepth = tcFrames.len
    /\ tcDepth >= 0
    /\ leaveRet = expectRet

C7_Witness ==
    /\ Len(entered) >= 2
    /\ leaveRet # 0
    /\ entered[Len(entered)] # leaveRet

\* C8: Stack() returns an independent snapshot: Enter and Leave never change
\* the length or the elements of a returned snapshot, and reordering or
\* truncating the snapshot never changes the context's Frames.
C8_SnapshotIndependent ==
    [][/\ ((\E f \in FramePtrs : Enter(f)) \/ Leave) =>
              /\ snap' = snap
              /\ SliceElems(arrays', snap') = SliceElems(arrays, snap)
       /\ ((\E i, j \in 1..MaxDepth : SnapSwap(i, j)) \/ SnapTruncate) =>
              /\ tcFrames' = tcFrames
              /\ SliceElems(arrays', tcFrames') = SliceElems(arrays, tcFrames)]_vars

C8_Witness ==
    /\ snap # NoSnap
    /\ snap.len >= 2
    /\ tcFrames.len >= 2
    /\ SliceElems(arrays, snap) # SliceElems(arrays, tcFrames)

----------------------------------------------------------------------------
(* Properties of the process-wide state *)

AllIdle == \A g \in Goroutines : gpc[g] = "idle"

\* what a GlobalStack() / FromContext(ctx).Stack() called now, alone, returns
LaterStack ==
    MethodResult("Stack",
                 IF GetResult(globalContext).tc = "global" THEN gInst ELSE EmptyInst,
                 0).ret

\* C9: the fallback context is lazily initialised on first use: every use
\* operates on one single instance, so a frame entered through any entry
\* point is in the stack a later GlobalStack() returns until it is left.
C9_SingleInstance ==
    /\ instances <= 1
    /\ AllIdle => \A i \in 1..Len(liveEntered) : liveEntered[i] \in Elems(LaterStack)

\* C10: every read and write of the fallback context's frame list and of
\* the global configuration happens under that resource's mutex: no two
\* accesses to the same resource overlap when one of them is a write.
C10_GuardedAccess ==
    /\ \A g \in Goroutines :
          acc[g].res = "Frames" =>
              \/ globalMutex.writer = g
              \/ acc[g].mode = "read" /\ g \in globalMutex.readers
    /\ \A g, h \in Goroutines :
          (g # h /\ acc[g].res \in {"Frames", "Config"} /\ acc[h].res = acc[g].res)
              => (acc[g].mode = "read" /\ acc[h].mode = "read")

----------------------------------------------------------------------------
(* Properties of the signature cache *)

\* C11: every read and write of the signature cache map happens under
\* signatureCacheMu, and a file's entry is write-once: once the map holds
\* an entry for a file, no later step replaces it.
C11_CacheWriteOnce ==
    [][/\ \A g \in Lookers :
            /\ look[g].pc = "read" => g \in signatureCacheMu.readers
            /\ look[g].pc = "store" => signatureCacheMu.writer = g
       /\ \A f \in SourceFiles :
            signatureCache[f].ok => signatureCache'[f] = signatureCache[f]]_vars

\* the lookup goroutine g has completed
Returned(g) == look[g].pc = "idle" /\ look[g].calls > 0

\* the functions of the entry a lookup worked on whose span holds its line
Spanning(g) ==
    IF look[g].entry \in {NoEntry, NilEntry} THEN {}
    ELSE LET fns == FunctionSignatures(FileDecls(look[g].entry.data))
         IN  {i \in 1..Len(fns) :
                 fns[i].startLine <= look[g].line /\ look[g].line <= fns[i].endLine}

\* C14: a lookup with an empty path or a line <= 0 returns none and
\* touches no cache entry; a lookup of an unreadable file returns none and
\* leaves the file cached as "no data"; a lookup whose line no span holds
\* returns none; and while lookups do not overlap, no file is read and
\* parsed more than once.
C14_FailsSoft ==
    /\ \A g \in Lookers : Returned(g) =>
          /\ (look[g].file = <<>> \/ look[g].line <= 0) =>
                 look[g].ret = 0 /\ ~look[g].stored /\ look[g].entry = NoEntry
          /\ look[g].entry = NilEntry => look[g].ret = 0
          /\ Spanning(g) = {} => look[g].ret = 0
          /\ (look[g].file = FileB /\ look[g].line > 0) =>
                 signatureCache[FileB] = NilEntry
    /\ ~sigHist.overlap => \A f \in SourceFiles : sigHist.parses[f] <= 1

\* the unreadable file was looked up a second time, one lookup after the
\* other, and the second lookup found the cached "no data"
C14_Witness ==
    /\ ~sigHist.overlap
    /\ sigHist.parses[FileB] = 1
    /\ \E g \in Lookers :
          /\ Returned(g) /\ look[g].calls = 2
          /\ look[g].file = FileB /\ look[g].ok /\ look[g].ret = 0
          /\ ~look[g].stored

\* the functions of the resolved file that may answer the resolution: the
\* span holds the line and the candidate name is empty or ends in the
\* declared name
Answers ==
    {i \in 1..Len(resolver.decls) :
        /\ resolver.decls[i].start <= resolver.line
        /\ resolver.line <= resolver.decls[i].end
        /\ resolver.name = <<>> \/ HasSuffix(resolver.name, resolver.decls[i].name)}

SpanSize(i) == resolver.decls[i].end - resolver.decls[i].start

\* C13: the resolver returns none exactly when no function's span holds
\* the line (under the candidate name), never a function whose span does
\* not hold the line, and of several functions whose spans hold the line
\* the one with the smallest span.
C13_SmallestSpan ==
    resolver.pc = "done" =>
        /\ Answers = {} => resolver.ret = 0
        /\ Answers # {} =>
              /\ resolver.ret \in Answers
              /\ \A j \in Answers : SpanSize(resolver.ret) <= SpanSize(j)

----------------------------------------------------------------------------
(* Properties of normalizeFrameArgs *)

\* C15: normalising a frame's arguments twice with the same parameter
\* names leaves frame.Args as one normalisation left it.
C15_Idempotent == norm.pc = "twice" => norm.Args = norm.once

IsDigit(c) == c \in {"0", "1", "2", "3", "4", "5", "6", "7", "8", "9"}

\* a key of the positional form arg<N>
IsPositional(k) ==
    /\ Len(k) > 3
    /\ HasPrefix(k, S_arg)
    /\ \A i \in 4..Len(k) : IsDigit(k[i])

\* C16: given a non-empty parameter list, every entry whose key is not of
\* the form arg<N> is in the normalised map with the same key and value.
C16_PassThrough ==
    (norm.pc = "once" /\ Len(norm.params) > 0) =>
        \A k \in DOMAIN norm.orig :
            ~IsPositional(k) => k \in DOMAIN norm.Args /\ norm.Args[k] = norm.orig[k]

----------------------------------------------------------------------------
(* Properties of the memoisation onto frames *)

\* C12: no LogWithStack call writes a frame's Signature or Args while
\* another LogWithStack call is reading or writing the same field of the
\* same frame.
C12_MemoRaceFree ==
    \A g, h \in Loggers :
        (g # h /\ logr[g].acc.mode = "write" /\ logr[h].acc # NoFieldAccess) =>
            ~(logr[g].acc.frame = logr[h].acc.frame /\ logr[g].acc.field = logr[h].acc.field)

----------------------------------------------------------------------------
(* Traced calls that log: TracedFunc.Call, the wrapper Trace builds and    *)
(* EnhancedLogger.LogWithStack, run by one goroutine on one explicit       *)
(* TraceContext.  Text is a sequence of pieces: names, keys and values are *)
(* spelled character by character, the literals of the format strings are *)
(* one piece each ("->" stands for the arrow of the source).               *)

\* strings.Index(s, c) and strings.LastIndex(s, c), 1-based, 0 for -1
IndexOf(s, c) ==
    IF \E i \in 1..Len(s) : s[i] = c
    THEN CHOOSE i \in 1..Len(s) : s[i] = c /\ \A j \in 1..(i - 1) : s[j] # c
    ELSE 0

LastIndexOf(s, c) ==
    IF \E i \in 1..Len(s) : s[i] = c
    THEN CHOOSE i \in 1..Len(s) : s[i] = c /\ \A j \in (i + 1)..Len(s) : s[j] # c
    ELSE 0

\* filepath.Base
RECURSIVE TrimSlashes(_)
TrimSlashes(path) ==
    IF Len(path) > 0 /\ path[Len(path)] = "/"
    THEN TrimSlashes(SubSeq(path, 1, Len(path) - 1))
    ELSE path

Base(path) ==
    IF path = <<>> THEN <<".">>
    ELSE IF TrimSlashes(path) = <<>> THEN <<"/">>
    ELSE LET p == TrimSlashes(path)
         IN  SubSeq(p, LastIndexOf(p, "/") + 1, Len(p))

\* lines 416-426
shortFunctionName(name) ==
    IF name = <<>> THEN <<>>
    ELSE SubSeq(name, LastIndexOf(name, "/") + 1, Len(name))

\* %q of a key
Quote(k) == <<"\"">> \o k \o <<"\"">>

\* The order in which one range over a map meets its keys.  Go leaves it
\* open; the maps here hold at most two keys, so an order and its reverse
\* are all there is.
KeyOrder(m, flip) ==
    LET ks == CHOOSE s \in [1..Cardinality(DOMAIN m) -> DOMAIN m] :
                  \A i, j \in 1..Cardinality(DOMAIN m) : i # j => s[i] # s[j]
    IN  IF flip THEN [i \in 1..Len(ks) |-> ks[Len(ks) + 1 - i]] ELSE ks

\* types.go 70-81, for a *DebugVars that is nil (vars = EmptyMap) or not
DebugVarsString(m, flip) ==
    IF DOMAIN m = {} THEN <<"{}">>
    ELSE LET ks == KeyOrder(m, flip)
         IN  <<"{">>
             \o Join([i \in 1..Len(ks) |-> Quote(ks[i]) \o <<": ">> \o m[ks[i]]],
                     <<", ">>)
             \o <<"}">>

\* fmt.Sprintf(format, args...) for a format whose only verb is %v:
\* each verb takes the next argument, a verb without one prints
\* %!v(MISSING), arguments left over are listed after %!(EXTRA
RECURSIVE SprintfFrom(_, _, _)
SprintfFrom(format, i, args) ==
    IF i > Len(format)
    THEN IF Len(args) = 0 THEN <<>>
         ELSE <<"%!(EXTRA ">>
              \o Join([j \in 1..Len(args) |-> <<"string=">> \o args[j]], <<", ">>)
              \o <<")">>
    ELSE IF format[i] = "%v"
         THEN IF Len(args) = 0
              THEN <<"%!v(MISSING)">> \o SprintfFrom(format, i + 1, args)
              ELSE args[1] \o SprintfFrom(format, i + 1, Tail(args))
    ELSE <<format[i]>> \o SprintfFrom(format, i + 1, args)

Sprintf(format, args) == SprintfFrom(format, 1, args)

\* the number of lines of a readable file
FileLines(data) == IF data = "v1" THEN 1 ELSE 2

\* a *functionSignature that is nil
NoFn == [name |-> <<>>, startLine |-> 0, endLine |-> 0, signature |-> <<>>,
         params |-> <<>>]

(* The helpers of LogWithStack read and write the Frame objects and the    *)
(* signature cache and open files.  st = [heap, cache, opened] is what     *)
(* they have done so far: the Frame objects, signatureCache and the files  *)
(* opened.                                                                  *)

\* lines 183-215 with nobody else at the cache: the function found
getSignatureForLocation(st, file, line, functionName) ==
    IF file = <<>> \/ line <= 0 THEN [st |-> st, fn |-> NoFn]
    ELSE LET hit   == CacheHit(st.cache[file])
             entry == IF hit THEN st.cache[file] ELSE parseFileSignatures(1, file)
             st1   == IF hit THEN st
                      ELSE [st EXCEPT !.cache[file] = entry,
                                      !.opened = @ \cup {file}]
         IN  IF entry.data = "none" THEN [st |-> st1, fn |-> NoFn]
             ELSE LET fns == FunctionSignatures(FileDecls(entry.data))
                      i   == ScanFunctions(fns, 1, line, functionName)
                  IN  [st |-> st1, fn |-> IF i = 0 THEN NoFn ELSE fns[i]]

\* lines 165-181; f = 0 is the nil frame
resolveFrameSignature(st, f) ==
    IF f = 0 THEN [st |-> st, sig |-> <<>>]
    ELSE IF st.heap[f].Signature # <<>> THEN [st |-> st, sig |-> st.heap[f].Signature]
    ELSE LET r == getSignatureForLocation(st, st.heap[f].File, st.heap[f].Line,
                                          st.heap[f].Function)
         IN  IF r.fn # NoFn
             THEN [st  |-> [r.st EXCEPT
                               !.heap[f].Signature = r.fn.signature,
                               !.heap[f].Args =
                                   normalizeFrameArgs(@, r.fn.params)],
                   sig |-> r.fn.signature]
             ELSE [st |-> r.st, sig |-> st.heap[f].Function]

\* lines 399-413
shortFrameLabel(st, f) ==
    IF f = 0 THEN [st |-> st, label |-> <<>>]
    ELSE LET r == resolveFrameSignature(st, f)
         IN  IF r.sig # <<>>
             THEN [st |-> r.st,
                   label |-> IF IndexOf(r.sig, "(") # 0
                             THEN SubSeq(r.sig, 1, IndexOf(r.sig, "(") - 1)
                             ELSE r.sig]
             ELSE [st |-> r.st, label |-> shortFunctionName(r.st.heap[f].Function)]

\* lines 371-396
buildRouteLine(st, filtered) ==
    IF Len(filtered) = 0 THEN [st |-> st, route |-> <<>>]
    ELSE LET o == shortFrameLabel(st, filtered[1])
             c == shortFrameLabel(o.st, filtered[Len(filtered)])
         IN  [st |-> c.st,
              route |->
                 IF o.label = <<>> /\ c.label = <<>> THEN <<>>
                 ELSE IF o.label = <<>> THEN <<"Route: ", "-> ">> \o c.label
                 ELSE IF c.label = <<>> THEN <<"Route: ">> \o o.label \o <<" ->">>
                 ELSE IF o.label = c.label THEN <<"Route: ">> \o c.label
                 ELSE <<"Route: ">> \o o.label \o <<" -> ">> \o c.label]

\* getCodeSnippet finding one line of code under a path it cannot open
getCodeSnippet_AlwaysReads(st, file, line, contextLines) ==
    IF contextLines <= 0 THEN [st |-> st, snippet |-> <<>>]
    ELSE [st |-> [st EXCEPT !.opened = @ \cup {file}],
          snippet |-> IF line # 1 THEN <<>>
                      ELSE <<"      ", ">", " ">> \o Itoa(line) \o <<" ", "code">>]

\* lines 86-128: the file is opened; the snippet, or <<>> with an error
getCodeSnippet(st, file, line, contextLines) ==
    IF contextLines <= 0 THEN [st |-> st, snippet |-> <<>>]
    ELSE LET st1 == [st EXCEPT !.opened = @ \cup {file}]
         IN  IF fsys[file] = "unreadable" THEN [st |-> st1, snippet |-> <<>>]
             ELSE IF line <= 0 \/ line > FileLines(fsys[file])
                  THEN [st |-> st1, snippet |-> <<>>]
             ELSE LET lo == IF line - contextLines - 1 > 0
                            THEN line - contextLines - 1 ELSE 0
                      hi == Min(FileLines(fsys[file]), line + contextLines)
                  IN  [st |-> st1,
                       snippet |->
                          Join([i \in 1..(hi - lo) |->
                                   <<"      ", IF lo + i = line THEN ">" ELSE " ", " ">>
                                   \o Itoa(lo + i) \o <<" ", "code">>],
                               <<"\n">>)]

\* lines 131-163; frames carry no Duration here
formatFrame(st, f, index, opts, flip) ==
    LET r        == resolveFrameSignature(st, f)
        frame    == r.st.heap[f]
        name     == IF r.sig = <<>> THEN <<"<anonymous>">> ELSE r.sig
        header   == <<"  ">> \o Itoa(index + 1) \o <<". ">> \o Base(frame.File)
                    \o <<":">> \o Itoa(frame.Line) \o <<" -> ">> \o name
        s        == IF opts.ShowSnippet > 0 /\ frame.File # <<>>
                    THEN getCodeSnippet(r.st, frame.File, frame.Line, opts.ShowSnippet)
                    ELSE [st |-> r.st, snippet |-> <<>>]
        snipPart == IF s.snippet # <<>> THEN <<s.snippet>> ELSE <<>>
        varsPart == IF DOMAIN frame.Args # {}
                    THEN << <<"     Vars: ">> \o DebugVarsString(frame.Args, flip) >>
                    ELSE <<>>
    IN  [st |-> s.st,
         block |-> Join(<<header>> \o snipPart \o varsPart, <<"\n">>)]

\* lines 569-571: the blocks of filtered[i..], appended to parts
RECURSIVE FormatFrames(_, _, _, _, _, _)
FormatFrames(st, filtered, i, opts, flip, parts) ==
    IF i >= Len(filtered) THEN [st |-> st, parts |-> parts]
    ELSE LET b == formatFrame(st, filtered[i + 1], i, opts, flip)
         IN  FormatFrames(b.st, filtered, i + 1, opts, flip, Append(parts, b.block))

\* ---- the traced functions ----

\* The k-th function of a chain is declared as  func fk(c C, x T)  in a file
\* that is on disk and that no frame points to.
FnName(k) == <<"f">> \o Itoa(k)

FnDecl(k) ==
    [name |-> FnName(k), start |-> 1, end |-> 1,
     params |-> <<[name |-> <<"c">>, type |-> <<"C">>],
                  [name |-> <<"x">>, type |-> <<"T">>]>>]

\* part_000 lines 33-80 with Options.Label set and the declaration found
\* (lines 65-68)
NewTracedFunc(k) ==
    [Name       |-> FnName(k),
     Signature  |-> formatFuncSignature(FnDecl(k)),
     ParamNames |-> extractParamNames(FnDecl(k))]

\* part_000 lines 210-213: the positional map of the arguments (ctx, k)
ArgsMap(k) == (ArgKey(0) :> <<"b", "g">>) @@ (ArgKey(1) :> Itoa(k))

\* part_000 lines 215-216: CreateFrame followed by normalizeFrameArgs
CallFrame_Positional(tf, file, line, argsMap) ==
    [Function |-> tf.Name, Signature |-> tf.Signature, File |-> file,
     Line |-> line, Args |-> argsMap]

CallFrame(tf, file, line, argsMap) ==
    [Function |-> tf.Name, Signature |-> tf.Signature, File |-> file,
     Line |-> line, Args |-> normalizeFrameArgs(argsMap, tf.ParamNames)]

\* part_000 lines 232-242 and the return of Call, whose result has no name:
\* after a recovered panic Call returns the zero value, nil; line 234 sets
\* err, which lines 265-272 never get to put into a TraceResult
CallResult(panicked) ==
    IF panicked THEN [result |-> "nil", Error |-> "none"]
    ELSE [result |-> "TraceResult", Error |-> "nil"]

\* part_000 line 299: len(result.Results) with result = nil
WrapperPanics(wrapped, res) == wrapped /\ res.result = "nil"

\* what a wrapped function hands back: no result, or a value and an error
\* that is nil or not
ReturnLists ==
    {<<>>} \cup {<<[t |-> "T", v |-> "v"], [t |-> "error", v |-> e]>> : e \in {"nil", "boom"}}

\* part_000 lines 298-313: the values the wrapper hands back, from the
\* Results and the Error of the TraceResult
WrapperReturns(Results, Error) ==
    IF Len(Results) > 0 /\ Results[Len(Results)].t = "error"
    THEN [Results EXCEPT ![Len(Results)].v = IF Error # "nil" THEN Error ELSE "nil"]
    ELSE Results

\* ---- the logger ----

\* the options InstallStackLogger was given
\* (stack_logger_test.go 81-90 and the example's, lines 760-770, each also
\* with Ascending unset)
TraceOptionSet ==
    {[Prefix |-> <<"CALL STACK">>, ShowSnippet |-> o[1], Limit |-> 5,
      OnlyApp |-> FALSE, PreferApp |-> o[2], Ascending |-> a,
      AppPattern |-> <<"/", "a", "p", "p", "/">>] :
        o \in {<<0, FALSE>>, <<2, TRUE>>}, a \in BOOLEAN}

\* lines 445-460: the frames runtime.Callers reports, innermost first,
\* Args nil
RuntimeCallers ==
    <<[Function |-> <<"m", ".", "a">>, Signature |-> <<>>, File |-> FileA,
       Line |-> 1, Args |-> EmptyMap],
      [Function |-> S_runtimeDot \o <<"m", "a", "i", "n">>, Signature |-> <<>>,
       File |-> FileB, Line |-> 2, Args |-> EmptyMap]>>

\* ---- what the caller passes to LogWithStack ----
PlainArg == [dv |-> FALSE, vars |-> EmptyMap, val |-> <<"7">>]
VarsArg  == [dv |-> TRUE, vars |-> (<<"i", "d">> :> <<"7">>), val |-> <<>>]
NilVars  == [dv |-> TRUE, vars |-> EmptyMap, val |-> <<>>]

LogInputs ==
    {[level |-> "INFO",  message |-> <<"m">>, args |-> <<>>],
     [level |-> "ERROR", message |-> <<"m", "=", "%v">>, args |-> <<PlainArg>>],
     [level |-> "INFO",  message |-> <<"m", "=", "%v">>, args |-> <<VarsArg>>],
     [level |-> "ERROR", message |-> <<"m", "=", "%v">>, args |-> <<VarsArg, PlainArg>>],
     [level |-> "WARN",  message |-> <<"m">>, args |-> <<PlainArg, NilVars>>]}

\* line 578: dv, ok := arg.(*DebugVars)
IsDebugVars(arg) == arg.dv
IsMessageArg(arg) == ~arg.dv

----------------------------------------------------------------------------
(* The specification of traced calls that log *)

\* a Frame the program filled in by hand and entered itself (lines
\* 1324-1331 do not ask IsEnabled): no Signature, one positional argument
HandFrame ==
    [Function |-> <<"m", ".", "a">>, Signature |-> <<>>, File |-> FileA,
     Line |-> 1, Args |-> (ArgKey(0) :> <<"1">>)]

\* frames entered by hand from library code this machine has no source of,
\* one of them without a function name
LibHandFrame ==
    [Function |-> LibFrame.Function, Signature |-> <<>>, File |-> FileB,
     Line |-> 1, Args |-> (ArgKey(0) :> <<"1">>)]
AnonFrame ==
    [Function |-> <<>>, Signature |-> <<>>, File |-> FileB,
     Line |-> 2, Args |-> EmptyMap]

\* the logger is installed; the TraceContext is new (lines 1315-1321) or
\* already holds frames entered by hand
InitTrace ==
    /\ GlobalStart
    /\ SigStart
    /\ el \in [options : TraceOptionSet]
    /\ tctx \in {<<>>, <<HandFrame>>, <<LibHandFrame, AnonFrame>>}
    /\ acts = <<>>
    /\ backend = <<>>
    /\ tlog = NoLog
    /\ outcome = NoOutcome
    /\ escaped = FALSE
    /\ FilterIdle /\ CtxIdle /\ ResIdle /\ NormIdle /\ MemoIdle /\ MoreIdle

\* what the traced calls and the logger leave alone
globalRest == <<globalContext, gInst, globalMutex, gpc, gop, gtc, acc,
                gseen, gret, gcalls, instances, liveEntered>>
sigRest == <<signatureCacheMu, fsys, look, sigHist>>

\* the code between two traced calls is running
Running ==
    /\ ~escaped
    /\ IF acts = <<>> THEN TRUE ELSE acts[Len(acts)].pc = "body"

\* gotrace/devtrace.go 87-89
IsEnabled_Always == TRUE

IsEnabled == Config

\* part_000 lines 144-225 (and 281-296 when the call goes through the
\* wrapper Trace built): up to the call of the wrapped function, from a call
\* site in file
TracedCall(file, wrapped) ==
    /\ Running
    /\ Len(acts) < MaxNest
    /\ LET k  == Len(acts) + 1
           tf == NewTracedFunc(k)
       IN  IF IsEnabled
           THEN /\ tctx' = Append(tctx, CallFrame(tf, file, 1, ArgsMap(k)))
                /\ acts' = Append(acts, [fn |-> k, frame |-> Len(tctx) + 1,
                                         pc |-> "body", wrapped |-> wrapped,
                                         base |-> Len(tctx)])
           ELSE /\ UNCHANGED tctx
                /\ acts' = Append(acts, [fn |-> k, frame |-> 0,
                                         pc |-> "body", wrapped |-> wrapped,
                                         base |-> Len(tctx)])
    /\ backend' = <<>> /\ tlog' = NoLog /\ outcome' = NoOutcome
    /\ UNCHANGED <<el, escaped, Config, signatureCache>>
    /\ UNCHANGED <<globalRest, sigRest, traceOthers>>

\* the wrapped function panics (inside part_000 lines 245-249)
BodyPanics ==
    /\ Running
    /\ acts # <<>>
    /\ acts' = [acts EXCEPT ![Len(acts)].pc = "panicking"]
    /\ backend' = <<>> /\ tlog' = NoLog /\ outcome' = NoOutcome
    /\ UNCHANGED <<el, tctx, escaped, Config, signatureCache>>
    /\ UNCHANGED <<globalRest, sigRest, traceOthers>>

\* part_000 lines 232-273: the wrapped function has returned or panicked;
\* the deferred function runs, Call returns, and the wrapper (lines
\* 296-313), when there is one, unpacks the result; rets are the values the
\* wrapped function returned (lines 252-256 copy them into Results)
CallExits(rets) ==
    /\ ~escaped
    /\ acts # <<>>
    /\ acts[Len(acts)].pc = "panicking" => rets = <<>>
    /\ LET top      == acts[Len(acts)]
           panicked == top.pc = "panicking"
           leaves   == IsEnabled /\ top.frame # 0
           res      == CallResult(panicked)
           raised   == WrapperPanics(top.wrapped, res)
           rest     == SubSeq(acts, 1, Len(acts) - 1)
       IN  /\ tctx' = IF leaves /\ Len(tctx) > 0
                      THEN SubSeq(tctx, 1, Len(tctx) - 1) ELSE tctx
           /\ acts' = IF raised /\ Len(rest) > 0
                      THEN [rest EXCEPT ![Len(rest)].pc = "panicking"]
                      ELSE rest
           /\ escaped' = (raised /\ Len(rest) = 0)
           /\ outcome' = [fn |-> top.fn, panicked |-> panicked,
                          wrapped |-> top.wrapped, result |-> res.result,
                          Error |-> res.Error,
                          left |-> (top.frame = 0 \/ leaves),
                          raised |-> raised,
                          returned |-> rets,
                          out |-> IF top.wrapped /\ ~raised
                                  THEN WrapperReturns(rets, res.Error) ELSE <<>>]
    /\ backend' = <<>> /\ tlog' = NoLog
    /\ UNCHANGED <<el, Config, signatureCache>>
    /\ UNCHANGED <<globalRest, sigRest, traceOthers>>

\* lines 576-584 and 593-597: the last part
MessagePart_AllArgs(message, args) ==
    IF Len(args) > 0
    THEN Sprintf(<<"\nMessage Log: ">> \o message,
                 [i \in 1..Len(args) |->
                     IF args[i].dv THEN DebugVarsString(args[i].vars, FALSE)
                     ELSE args[i].val])
    ELSE <<"\nMessage Log: ">> \o message

MessagePart(message, args) ==
    LET messageArgs == SelectSeq(args, IsMessageArg)
    IN  IF Len(messageArgs) > 0
        THEN Sprintf(<<"\nMessage Log: ">> \o message,
                     [i \in 1..Len(messageArgs) |-> messageArgs[i].val])
        ELSE <<"\nMessage Log: ">> \o message

\* lines 576-591: the parts of the Vars section
VarsParts(args, flip) ==
    LET debugVars == SelectSeq(args, IsDebugVars)
    IN  IF Len(debugVars) > 0
        THEN << <<"\nVars:">> >>
             \o [i \in 1..Len(debugVars) |-> DebugVarsString(debugVars[i].vars, flip)]
        ELSE <<>>

\* lines 550-603; the caller's level, message and args are drawn from
\* LogInputs
LogWithStack ==
    /\ Running
    /\ IF ~IsEnabled
       THEN /\ \E in \in LogInputs :
                 /\ backend' = <<[level |-> in.level, msg |-> in.message,
                                  args |-> in.args]>>
                 /\ tlog' = [NoLog EXCEPT !.level = in.level,
                                          !.message = in.message,
                                          !.args = in.args]
            /\ UNCHANGED <<tctx, signatureCache>>
       ELSE \E flip \in BOOLEAN :
            LET fallback == Len(tctx) = 0
                heap0    == IF fallback THEN RuntimeCallers ELSE tctx
                collected == [i \in 1..Len(heap0) |-> i]
                filtered == filterFrames(heap0, collected, el.options)
            IN  \E r \in {buildRouteLine([heap |-> heap0, cache |-> signatureCache,
                                       opened |-> {}], filtered)} :
                \E b \in {FormatFrames(r.st, filtered, 0, el.options, flip,
                                        <<el.options.Prefix>>
                                        \o (IF r.route # <<>>
                                            THEN << <<"  ">> \o r.route >>
                                            ELSE <<>>))} :
                LET shown == [i \in 1..Len(filtered) |-> b.st.heap[filtered[i]]]
                IN
                /\ \E in \in LogInputs :
                     LET parts == b.parts \o VarsParts(in.args, flip)
                                  \o <<MessagePart(in.message, in.args)>>
                     IN  /\ backend' = <<[level |-> in.level,
                                          msg |-> Join(parts, <<"\n">>),
                                          args |-> <<>>]>>
                         /\ tlog' = [enabled |-> TRUE, level |-> in.level,
                                     message |-> in.message, args |-> in.args,
                                     parts |-> parts, display |-> shown,
                                     route |-> r.route, ctxRead |-> TRUE,
                                     opened |-> b.st.opened]
                /\ tctx' = IF fallback THEN tctx ELSE b.st.heap
                /\ signatureCache' = b.st.cache
    /\ outcome' = NoOutcome
    /\ UNCHANGED <<el, acts, escaped, Config>>
    /\ UNCHANGED <<globalRest, sigRest, traceOthers>>

NextTrace ==
    \/ \E file \in SourceFiles : \E wrapped \in BOOLEAN : TracedCall(file, wrapped)
    \/ BodyPanics
    \/ \E rets \in ReturnLists : CallExits(rets)
    \/ LogWithStack

SpecTrace == InitTrace /\ [][NextTrace]_vars

----------------------------------------------------------------------------
(* Properties of traced calls that log *)

\* C20: when the wrapped function panics during a traced call, Call returns
\* a TraceResult whose Error records the panic, the frame pushed for the
\* call is popped, and no panic, the original one or a second one, reaches
\* the caller of Call or of the wrapper Trace built.
C20_PanicRecovered ==
    outcome.panicked =>
        /\ outcome.result = "TraceResult"
        /\ outcome.Error = "panic"
        /\ outcome.left
        /\ ~outcome.raised
        /\ ~escaped

\* C17: with tracing disabled, LogWithStack makes exactly one backend call
\* with the caller's level, template and argument list, DebugVars included,
\* and does nothing else: the trace context is not read, no Frame changes,
\* no file is opened, the signature cache keeps its content.
C17_DisabledPassThrough ==
    [][(~Config /\ tlog' # NoLog) =>
          /\ backend' = <<[level |-> tlog'.level, msg |-> tlog'.message,
                           args |-> tlog'.args]>>
          /\ \E in \in LogInputs :
                 /\ tlog'.level = in.level
                 /\ tlog'.message = in.message
                 /\ tlog'.args = in.args
          /\ ~tlog'.ctxRead
          /\ tlog'.opened = {}
          /\ tctx' = tctx
          /\ signatureCache' = signatureCache]_vars

\* a disabled call that passed a *DebugVars while the context holds a
\* frame without signature and the cache is empty
C17_Witness ==
    /\ ~Config
    /\ tlog # NoLog
    /\ \E i \in 1..Len(tlog.args) : tlog.args[i].dv
    /\ Len(backend) = 1
    /\ tctx = <<HandFrame>>
    /\ signatureCache[FileA] = NoEntry

\* the *DebugVars among the arguments of the last call, and the others
LoggedVars == SelectSeq(tlog.args, IsDebugVars)
LoggedPlain == SelectSeq(tlog.args, IsMessageArg)

\* C18: with tracing enabled, LogWithStack makes exactly one backend call,
\* at the caller's level, with one finished string and no format arguments;
\* the string is, in this order: the prefix, the route line if there is one,
\* the frame blocks numbered 1..n in display order, the Vars section (there
\* iff a *DebugVars was passed, with one rendering per *DebugVars), and the
\* Message Log line, formatted with the other arguments only.
C18_EntryLayout ==
    (tlog # NoLog /\ tlog.enabled) =>
        LET parts == tlog.parts
            n     == Len(tlog.display)
            o     == IF tlog.route # <<>> THEN 2 ELSE 1
            d     == Len(LoggedVars)
            v     == IF d > 0 THEN d + 1 ELSE 0
        IN  /\ backend = <<[level |-> tlog.level, msg |-> Join(parts, <<"\n">>),
                            args |-> <<>>]>>
            /\ Len(parts) = o + n + v + 1
            /\ parts[1] = el.options.Prefix
            /\ tlog.route # <<>> => HasPrefix(parts[2], <<"  ", "Route: ">>)
            /\ \A i \in 1..n :
                   HasPrefix(parts[o + i],
                             <<"  ">> \o Itoa(i) \o <<". ">>
                             \o Base(tlog.display[i].File) \o <<":">>
                             \o Itoa(tlog.display[i].Line) \o <<" -> ">>)
            /\ d > 0 => /\ parts[o + n + 1] = <<"\nVars:">>
                        /\ \A j \in 1..d :
                               parts[o + n + 1 + j] \in
                                   {DebugVarsString(LoggedVars[j].vars, f) :
                                       f \in BOOLEAN}
            /\ \A i \in 1..Len(parts) : parts[i] = <<"\nVars:">> => d > 0
            /\ parts[Len(parts)] =
                   <<"\nMessage Log: ">>
                   \o (IF Len(LoggedPlain) = 0 THEN tlog.message
                       ELSE Sprintf(tlog.message,
                                    [i \in 1..Len(LoggedPlain) |-> LoggedPlain[i].val]))

\* an enabled call with a route, two blocks, a *DebugVars and a format
\* argument
C18_Witness ==
    /\ tlog # NoLog /\ tlog.enabled
    /\ tlog.route # <<>>
    /\ Len(tlog.display) = 2
    /\ Len(LoggedVars) = 1
    /\ Len(LoggedPlain) = 1
    /\ Len(backend) = 1

\* the entry was logged inside the innermost call of a chain f1 .. fn of
\* traced calls whose frames are the frames of the context; ascending order
Chain ==
    /\ tlog # NoLog /\ tlog.enabled
    /\ el.options.Ascending
    /\ Len(acts) >= 1
    /\ Len(tctx) = Len(acts)

\* the entry C19 describes for the chain
ChainEntry ==
    LET n     == Len(acts)
        parts == tlog.parts
    IN  /\ Len(parts) >= n + 3
        /\ parts[1] = el.options.Prefix
        /\ parts[2] = <<"  ", "Route: ">> \o FnName(1)
                      \o (IF n = 1 THEN <<>> ELSE <<" -> ">> \o FnName(n))
        /\ \A i \in 1..n :
               /\ HasPrefix(parts[2 + i], <<"  ">> \o Itoa(i) \o <<". ">>)
               /\ Contains(parts[2 + i],
                           FnName(i) \o <<"(", "c", " ", "C", ",", " ",
                                          "x", " ", "T", ")">>)
               /\ Contains(parts[2 + i], Quote(<<"c">>) \o <<": ", "b", "g">>)
               /\ Contains(parts[2 + i], Quote(<<"x">>) \o <<": ">> \o Itoa(i))
               /\ ~Contains(parts[2 + i], <<"\"">> \o S_arg)
        /\ \A i \in (n + 3)..Len(parts) :
               ~HasPrefix(parts[i], <<"  ">>)
        /\ HasPrefix(parts[Len(parts)], <<"\nMessage Log: ">>)
        /\ Len(backend) = 1
        /\ backend[1].msg = Join(parts, <<"\n">>)

OneSide ==
    \/ \A i \in 1..Len(tctx) : IsAppFrame(tctx, i, el.options)
    \/ \A i \in 1..Len(tctx) : ~IsAppFrame(tctx, i, el.options)

----------------------------------------------------------------------------
(* Further properties of filterFrames *)

\* C26: a configured Limit <= 0 means the default of 5: under every option
\* combination filterFrames returns with Limit <= 0 exactly the frames it
\* returns with Limit = 5.
C26_ZeroLimitIsDefault ==
    (fpc = "done" /\ options.Limit <= 0) =>
        display = filterFrames(heap, frames, [options EXCEPT !.Limit = 5])

\* C28: for an input of pairwise distinct frames and every option
\* combination, every displayed frame is an input frame, no frame is
\* displayed twice, with ascending=true displayed frames keep the relative
\* order of the input, and the input sequence is left as it was.
C28_OrderedSelection ==
    fpc = "done" =>
        /\ \A i \in 1..Len(display) : \E j \in 1..Len(frames) : display[i] = frames[j]
        /\ NoRepeats(display)
        /\ options.Ascending =>
               \A i, j \in 1..Len(display) :
                   i < j =>
                       \E a, b \in 1..Len(frames) :
                           a < b /\ frames[a] = display[i] /\ frames[b] = display[j]
        /\ frames = [i \in 1..Len(heap) |-> i]

\* preferApp mixing displayed an application frame and a filler frame
C28_Witness ==
    /\ fpc = "done"
    /\ options.PreferApp /\ ~options.OnlyApp /\ options.Ascending
    /\ Len(frames) >= 3
    /\ \E i \in 1..Len(display) : IsAppFrame(heap, display[i], options)
    /\ \E i \in 1..Len(display) : ~IsAppFrame(heap, display[i], options)


----------------------------------------------------------------------------
(* The preferApp mixing loop of filterFrames, one iteration at a time *)

\* one iteration of the loop that never runs the skip loop
MixStep_NoSkip(h, filtered, apps, opts, result, appIndex, otherIndex) ==
    IF appIndex < Len(apps)
    THEN [r |-> Append(result, apps[appIndex + 1]), a |-> appIndex + 1, o |-> otherIndex]
    ELSE IF otherIndex < Len(filtered) /\ ~IsAppFrame(h, filtered[otherIndex + 1], opts)
         THEN [r |-> Append(result, filtered[otherIndex + 1]),
               a |-> appIndex, o |-> otherIndex + 1]
         ELSE [r |-> result, a |-> appIndex, o |-> otherIndex]

\* lines 503-520: the body of one iteration, the skip loop included
MixStep(h, filtered, apps, opts, result, appIndex, otherIndex) ==
    LET s == IF appIndex < Len(apps)
             THEN [r |-> Append(result, apps[appIndex + 1]),
                   a |-> appIndex + 1, o |-> otherIndex]
             ELSE IF otherIndex < Len(filtered)
                     /\ ~IsAppFrame(h, filtered[otherIndex + 1], opts)
                  THEN [r |-> Append(result, filtered[otherIndex + 1]),
                        a |-> appIndex, o |-> otherIndex + 1]
                  ELSE [r |-> result, a |-> appIndex, o |-> otherIndex]
    IN  [r |-> s.r, a |-> s.a, o |-> SkipAdded(filtered, apps, s.a, s.o)]

\* line 502: the loop condition
MixCondition(m) ==
    /\ Len(m.result) < m.options.Limit
    /\ (m.appIndex < Len(m.appFrames) \/ m.otherIndex < Len(m.filtered))

\* the frame lists the loop is run on: the same *Frame may occur twice
MixInputs ==
    UNION {[1..n -> 1..MaxPtr] : n \in 0..MaxMixLen}

MixOptionSet ==
    [Limit : 0..(MaxMixLen + 1), OnlyApp : BOOLEAN, PreferApp : BOOLEAN,
     Ascending : {TRUE}, AppPattern : {AppPatternValue}]

InitMix ==
    /\ \E h \in [1..MaxPtr -> {AppFrame, LibFrame}], fs \in MixInputs, opts \in MixOptionSet :
          mix = [pc |-> "collect", heap |-> h, filtered |-> fs, options |-> opts,
                 appFrames |-> <<>>, result |-> <<>>, appIndex |-> 0, otherIndex |-> 0]
    /\ wiring = Idle /\ instr = Idle
    /\ FilterIdle /\ CtxIdle /\ GlobalIdle
    /\ SigIdle /\ ResIdle /\ NormIdle /\ MemoIdle /\ TraceIdle

mixOthers == <<filterVars, ctxVars, globalVars, sigVars, resolver, norm, memoVars,
               traceVars, wiring, instr>>

\* lines 486-500: the application frames are gathered and the branch chosen
MixCollect ==
    /\ mix.pc = "collect"
    /\ LET apps == IF mix.options.OnlyApp \/ mix.options.PreferApp
                   THEN CollectAppFrames(mix.heap, mix.filtered, mix.options)
                   ELSE <<>>
       IN  mix' = [mix EXCEPT
                     !.appFrames = apps,
                     !.pc = IF Len(apps) > 0 /\ ~mix.options.OnlyApp /\ mix.options.PreferApp
                            THEN "loop" ELSE "done",
                     !.filtered = IF Len(apps) > 0 /\ mix.options.OnlyApp
                                  THEN apps ELSE mix.filtered]
    /\ UNCHANGED mixOthers

\* lines 502-520: the condition holds and one iteration runs
MixIterate ==
    /\ mix.pc = "loop"
    /\ MixCondition(mix)
    /\ LET s == MixStep(mix.heap, mix.filtered, mix.appFrames, mix.options,
                        mix.result, mix.appIndex, mix.otherIndex)
       IN  mix' = [mix EXCEPT !.result = s.r, !.appIndex = s.a, !.otherIndex = s.o]
    /\ UNCHANGED mixOthers

\* lines 502 and 522: the condition fails and the result replaces filtered
MixExit ==
    /\ mix.pc = "loop"
    /\ ~MixCondition(mix)
    /\ mix' = [mix EXCEPT !.filtered = mix.result, !.pc = "done"]
    /\ UNCHANGED mixOthers

NextMix == MixCollect \/ MixIterate \/ MixExit

SpecMix == InitMix /\ [][NextMix]_vars

\* the loop is run to its end: a goroutine that is in it takes its next step
SpecMixLive == SpecMix /\ WF_vars(NextMix)

\* C29: the mixing loop advances appIndex or otherIndex on every iteration
\* and filterFrames comes to its end, for every frame list (the same *Frame
\* may occur more than once), every option combination and every Limit.
C29_MixTerminates ==
    /\ [][(mix.pc = "loop" /\ mix'.pc = "loop") =>
             /\ mix'.appIndex >= mix.appIndex
             /\ mix'.otherIndex >= mix.otherIndex
             /\ mix'.appIndex + mix'.otherIndex > mix.appIndex + mix.otherIndex]_vars
    /\ <>(mix.pc = "done")

\* the loop ended on alternating application and other frames, one *Frame
\* occurring twice, with a Limit beyond the frames there are
C29_Witness ==
    /\ mix.pc = "done"
    /\ mix.options.PreferApp /\ ~mix.options.OnlyApp
    /\ mix.options.Limit > MaxMixLen
    /\ mix.appIndex > 0 /\ mix.otherIndex > 0
    /\ Len(mix.result) >= 2
    /\ \E i, j \in 1..Len(mix.appFrames) : i # j /\ mix.appFrames[i] = mix.appFrames[j]
    /\ \E i \in 1..Len(mix.result) : ~IsAppFrame(mix.heap, mix.result[i], mix.options)

----------------------------------------------------------------------------
(* Further properties of normalizeFrameArgs *)

\* C30: normalisation loses no captured value: every value frame.Args held
\* before is held under some key afterwards, and the map has as many
\* entries as before, also with more positional arguments than parameters
\* and with repeated parameter names.
C30_NoValueLost ==
    norm.pc = "once" =>
        /\ \A k \in DOMAIN norm.orig : \E n \in DOMAIN norm.Args : norm.Args[n] = norm.orig[k]
        /\ Cardinality(DOMAIN norm.Args) = Cardinality(DOMAIN norm.orig)

----------------------------------------------------------------------------
(* Further properties of the traced calls *)

\* gotrace/devtrace.go 82-84, called by the program while traced calls are
\* under way; the context is not let grow beyond MaxDepth leftover frames
SetConfigEnabled(enabled) ==
    /\ ~escaped
    /\ Len(tctx) <= MaxDepth
    /\ Config # enabled
    /\ Config' = enabled
    /\ backend' = <<>> /\ tlog' = NoLog /\ outcome' = NoOutcome
    /\ UNCHANGED <<el, tctx, acts, escaped, signatureCache>>
    /\ UNCHANGED <<globalRest, sigRest, traceOthers>>

\* traced calls while the configuration changes
NextToggle ==
    \/ \E file \in SourceFiles : \E wrapped \in BOOLEAN : TracedCall(file, wrapped)
    \/ BodyPanics
    \/ \E rets \in ReturnLists : CallExits(rets)
    \/ \E enabled \in BOOLEAN : SetConfigEnabled(enabled)

SpecToggle == InitTrace /\ [][NextToggle]_vars

\* C25: when a traced call on the explicit TraceContext returns, normally
\* or after a panic, the context's frames are those it held right before
\* the call, whatever SetConfig did in between.
C25_Balanced ==
    [][Len(acts') < Len(acts) =>
          /\ Len(tctx) >= acts[Len(acts)].base
          /\ tctx' = SubSeq(tctx, 1, acts[Len(acts)].base)]_vars

\* C21: when the wrapped function does not panic, the wrapper Trace built
\* returns exactly the values the function returned, a non-nil error in the
\* last position included, with tracing enabled or disabled.
C21_ReturnsPreserved ==
    (outcome.fn # 0 /\ outcome.wrapped /\ ~outcome.panicked) =>
        outcome.out = outcome.returned

\* the block of the i-th displayed frame when its file cannot be read and
\* its display name is name: the header, no snippet, the frame's arguments
UnreadableBlocks(i, name) ==
    LET f      == tlog.display[i]
        header == <<"  ">> \o Itoa(i) \o <<". ">> \o Base(f.File) \o <<":">>
                  \o Itoa(f.Line) \o <<" -> ">> \o name
    IN  IF DOMAIN f.Args = {} THEN {header}
        ELSE {header \o <<"\n", "     Vars: ">> \o DebugVarsString(f.Args, flip) :
                 flip \in BOOLEAN}

RawName(f) == IF f.Function = <<>> THEN <<"<anonymous>">> ELSE f.Function

\* the entry is whole: one call of the backend, the Message Log line last,
\* no panic
WholeEntry ==
    /\ Len(backend) = 1
    /\ backend[1].msg = Join(tlog.parts, <<"\n">>)
    /\ HasPrefix(tlog.parts[Len(tlog.parts)], <<"\nMessage Log: ">>)
    /\ ~escaped

BlockOffset == IF tlog.route # <<>> THEN 2 ELSE 1

\* C22 as stated: when a displayed frame's file cannot be read, the entry
\* is still whole and that frame's block is its header with the raw
\* function name (<anonymous> for an empty name), without snippet lines.
C22_UnreadableRawName ==
    (tlog # NoLog /\ tlog.enabled) =>
        \A i \in 1..Len(tlog.display) :
            fsys[tlog.display[i].File] = "unreadable" =>
                /\ WholeEntry
                /\ tlog.parts[BlockOffset + i]
                       \in UnreadableBlocks(i, RawName(tlog.display[i]))

\* C22, amended: the same, the display name being the signature the frame
\* was created with when it has one, and the raw function name otherwise.
C22_UnreadableOwnName ==
    (tlog # NoLog /\ tlog.enabled) =>
        \A i \in 1..Len(tlog.display) :
            fsys[tlog.display[i].File] = "unreadable" =>
                /\ WholeEntry
                /\ tlog.parts[BlockOffset + i]
                       \in UnreadableBlocks(i,
                              IF tlog.display[i].Signature # <<>>
                              THEN tlog.display[i].Signature
                              ELSE RawName(tlog.display[i]))

\* snippets are configured; a named and a nameless frame from unreadable
\* library code and a traced call made from there are displayed
C22_Witness ==
    /\ tlog # NoLog /\ tlog.enabled
    /\ el.options.ShowSnippet > 0
    /\ Len(tlog.display) >= 3
    /\ \E i, j, k \in 1..Len(tlog.display) :
          /\ tlog.display[i] = LibHandFrame
          /\ tlog.display[j] = AnonFrame
          /\ tlog.display[k].File = FileB /\ tlog.display[k].Signature # <<>>
    /\ Len(backend) = 1

----------------------------------------------------------------------------
(* The wiring of the loggers: GlobalLogger, the logger field of            *)
(* GlobalEnhancedLogger, and the output of the standard log package.  One  *)
(* goroutine; its calls are a stack of [fn, pc].  The standard logger      *)
(* holds its mutex while it writes to its output.                          *)

Backends == {"DefaultLogger", "L"}

\* after package initialisation: GlobalLogger = &DefaultLogger{} (devtrace.go
\* 74), GlobalEnhancedLogger = NewEnhancedLogger(nil) (stack_logger.go 626),
\* the standard logger writes to stderr
WiringStart ==
    [GlobalLogger |-> "DefaultLogger", elLogger |-> "DefaultLogger",
     out |-> "stderr", mu |-> FALSE, stack |-> <<>>,
     got |-> [b \in Backends |-> 0], emitted |-> 0, stderr |-> 0,
     writes |-> 0, calls |-> 0]

InitWiring ==
    /\ wiring = WiringStart
    /\ mix = Idle /\ instr = Idle
    /\ FilterIdle /\ CtxIdle /\ GlobalIdle
    /\ SigIdle /\ ResIdle /\ NormIdle /\ MemoIdle /\ TraceIdle

wiringOthers == <<filterVars, ctxVars, globalVars, sigVars, resolver, norm, memoVars,
                  traceVars, mix, instr>>

Top == wiring.stack[Len(wiring.stack)]

At(fn, pc) == wiring.stack # <<>> /\ Top = [fn |-> fn, pc |-> pc]

Push(st, f) == Append(st, f)

Pop(st) == SubSeq(st, 1, Len(st) - 1)

SetTop(st, pc) == [st EXCEPT ![Len(st)].pc = pc]

\* devtrace.go 77-79; the counts of deliveries start anew
SetLogger(logger) ==
    /\ wiring.stack = <<>>
    /\ wiring' = [wiring EXCEPT !.GlobalLogger = logger,
                                !.got = [b \in Backends |-> 0],
                                !.emitted = 0]
    /\ UNCHANGED wiringOthers

\* stack_logger.go 628-634 with 69-78: the new logger takes GlobalLogger
InstallStackLogger ==
    /\ wiring.stack = <<>>
    /\ wiring' = [wiring EXCEPT !.elLogger = wiring.GlobalLogger]
    /\ UNCHANGED wiringOthers

\* log_adapter.go 18-22
RedirectStandardLogger ==
    /\ wiring.stack = <<>>
    /\ wiring' = [wiring EXCEPT !.out = "stackLogWriter"]
    /\ UNCHANGED wiringOthers

\* the program calls GlobalEnhancedLogger.Debug/Info/Warn/Error
\* (stack_logger.go 605-622)
Emit ==
    /\ wiring.stack = <<>>
    /\ wiring.calls < MaxLogCalls
    /\ wiring' = [wiring EXCEPT !.calls = @ + 1, !.emitted = @ + 1,
                                !.stack = <<[fn |-> "LogWithStack", pc |-> "call"]>>]
    /\ UNCHANGED wiringOthers

\* the program calls log.Printf / log.Print
StdLog ==
    /\ wiring.stack = <<>>
    /\ wiring.calls < MaxLogCalls
    /\ wiring' = [wiring EXCEPT !.calls = @ + 1,
                                !.stack = <<[fn |-> "Printf", pc |-> "lock"]>>]
    /\ UNCHANGED wiringOthers

\* stack_logger.go 550-603: the entry is built and handed to el.logger.Log
\* (line 553 or 602); devtrace.go 48-51: DefaultLogger.Log calls log.Printf
LogDeliver ==
    /\ At("LogWithStack", "call")
    /\ wiring' = [wiring EXCEPT
          !.got[wiring.elLogger] = @ + 1,
          !.stack = IF wiring.elLogger = "DefaultLogger"
                    THEN Push(SetTop(@, "ret"), [fn |-> "Printf", pc |-> "lock"])
                    ELSE Pop(@)]
    /\ UNCHANGED wiringOthers

\* DefaultLogger.Log and LogWithStack return
LogReturn ==
    /\ At("LogWithStack", "ret")
    /\ wiring' = [wiring EXCEPT !.stack = Pop(@)]
    /\ UNCHANGED wiringOthers

\* the standard logger takes its mutex, free or not at all
PrintfLock ==
    /\ At("Printf", "lock")
    /\ ~wiring.mu
    /\ wiring' = [wiring EXCEPT !.mu = TRUE, !.stack = SetTop(@, "write")]
    /\ UNCHANGED wiringOthers

\* and writes the line to its output: stderr, or stackLogWriter.Write
\* (log_adapter.go 11-15), which calls GlobalEnhancedLogger.Info
PrintfWrite ==
    /\ At("Printf", "write")
    /\ wiring' = [wiring EXCEPT
          !.stderr = IF wiring.out = "stderr" THEN @ + 1 ELSE @,
          !.writes = IF wiring.out = "stderr" THEN @ ELSE @ + 1,
          !.stack = IF wiring.out = "stderr" THEN SetTop(@, "unlock")
                    ELSE Push(Push(SetTop(@, "unlock"), [fn |-> "Write", pc |-> "ret"]),
                              [fn |-> "LogWithStack", pc |-> "call"])]
    /\ UNCHANGED wiringOthers

\* log_adapter.go 14: Write returns
WriteReturn ==
    /\ At("Write", "ret")
    /\ wiring' = [wiring EXCEPT !.stack = Pop(@)]
    /\ UNCHANGED wiringOthers

\* the standard logger releases its mutex and returns
PrintfUnlock ==
    /\ At("Printf", "unlock")
    /\ wiring' = [wiring EXCEPT !.mu = FALSE, !.stack = Pop(@)]
    /\ UNCHANGED wiringOthers

WiringStep ==
    \/ LogDeliver \/ LogReturn \/ PrintfLock \/ PrintfWrite \/ WriteReturn
    \/ PrintfUnlock

NextWiring ==
    \/ \E logger \in Backends : SetLogger(logger)
    \/ InstallStackLogger
    \/ RedirectStandardLogger
    \/ Emit
    \/ StdLog
    \/ WiringStep

SpecWiring == InitWiring /\ [][NextWiring]_vars

\* a call that can take its next step takes it
SpecWiringLive == SpecWiring /\ WF_vars(WiringStep)

\* C23: after SetLogger(L), every entry emitted through the global
\* enhanced logger goes to L and to no other backend, whether the enhanced
\* logger was created before or after the call of SetLogger.
C23_DeliveredToInstalled ==
    wiring.GlobalLogger = "L" =>
        /\ wiring.got["DefaultLogger"] = 0
        /\ wiring.stack = <<>> => wiring.got["L"] = wiring.emitted

\* C24: with the standard logger redirected and the default backend, every
\* call of the standard log package returns, and handling one write never
\* enters stackLogWriter.Write again.
C24_StdLogCompletes ==
    /\ [](Cardinality({i \in 1..Len(wiring.stack) : wiring.stack[i].fn = "Write"}) <= 1)
    /\ [](wiring.stack # <<>> => <>(wiring.stack = <<>>))

----------------------------------------------------------------------------
(* The instrumenter: ASTTransformer.Transform on one file.  A function     *)
(* body is a sequence of statements: "enter" is the statement              *)
(* devtrace.GlobalEnter(devtrace.CreateFrame(...)), "leave" is             *)
(* defer devtrace.GlobalLeave(), "stmt" any other statement.               *)

FuncNames == {<<"f">>, <<"i", "n", "i", "t">>, <<"m", "a", "i", "n">>,
              <<"T", "e", "s", "t", "A">>, <<"_", "h">>}

FuncDecls == [name : FuncNames, body : {<<>>, <<"stmt">>}]

SourceTrees ==
    [packageName : {"main", "p"},
     funcs : UNION {[1..n -> FuncDecls] : n \in 0..MaxFuncs},
     hasImport : {FALSE}]

\* part_001 lines 168-192
shouldSkipFunction(packageName, fn) ==
    \/ fn.name = <<"i", "n", "i", "t">>
    \/ packageName = "main" /\ fn.name = <<"m", "a", "i", "n">>
    \/ HasPrefix(fn.name, <<"T", "e", "s", "t">>)
    \/ HasPrefix(fn.name, <<"B", "e", "n", "c", "h", "m", "a", "r", "k">>)
    \/ HasPrefix(fn.name, <<"E", "x", "a", "m", "p", "l", "e">>)
    \/ HasPrefix(fn.name, <<"_">>)

\* part_001 lines 114-166: the function afterwards, and whether it was changed
instrumentFunction(packageName, fn) ==
    IF shouldSkipFunction(packageName, fn) \/ Len(fn.body) = 0
    THEN [fn |-> fn, modified |-> FALSE]
    ELSE [fn |-> [fn EXCEPT !.body = <<"enter", "leave">> \o @], modified |-> TRUE]

\* part_001 lines 27-48 (and 101-112 with AddTrace set): the file afterwards
\* and the value returned
Transform(file) ==
    LET done     == [i \in 1..Len(file.funcs) |->
                        instrumentFunction(file.packageName, file.funcs[i])]
        modified == \E i \in 1..Len(file.funcs) : done[i].modified
    IN  [file |-> [file EXCEPT !.funcs = [i \in 1..Len(file.funcs) |-> done[i].fn],
                               !.hasImport = @ \/ modified],
         modified |-> modified]

InitInstr ==
    /\ \E file \in SourceTrees :
          instr = [file |-> file, first |-> file, runs |-> 0, modified |-> FALSE]
    /\ mix = Idle /\ wiring = Idle
    /\ FilterIdle /\ CtxIdle /\ GlobalIdle
    /\ SigIdle /\ ResIdle /\ NormIdle /\ MemoIdle /\ TraceIdle

instrOthers == <<filterVars, ctxVars, globalVars, sigVars, resolver, norm, memoVars,
                 traceVars, mix, wiring>>

\* gotrace-instrument is run on the file once more
RunTransform ==
    /\ instr.runs < MaxRuns
    /\ LET r == Transform(instr.file)
       IN  instr' = [file |-> r.file,
                     first |-> IF instr.runs = 0 THEN r.file ELSE instr.first,
                     runs |-> instr.runs + 1,
                     modified |-> r.modified]
    /\ UNCHANGED instrOthers

NextInstr == RunTransform

SpecInstr == InitInstr /\ [][NextInstr]_vars

Occurrences(body, stmt) == Cardinality({i \in 1..Len(body) : body[i] = stmt})

\* C27: Transform on a file an earlier run instrumented adds no statement
\* and reports no modification; after any number of runs every function
\* holds at most one GlobalEnter statement and one deferred GlobalLeave.
C27_InstrumentOnce ==
    /\ instr.runs >= 2 => (~instr.modified /\ instr.file = instr.first)
    /\ instr.runs >= 1 =>
          \A i \in 1..Len(instr.file.funcs) :
              /\ Occurrences(instr.file.funcs[i].body, "enter") <= 1
              /\ Occurrences(instr.file.funcs[i].body, "leave") <= 1
====
